---------------------------- MODULE Spec2Model ----------------------------
(***************************************************************************)
(* Model of the tolerant bank-statement CSV ingestion pipeline of          *)
(* ana_budget: header normalisation, alias resolution, date and amount     *)
(* parsing, the debit/credit/"montant" reconciliation, export and          *)
(* re-import.  The three importer variants of the repository               *)
(* (src/ana_budget/csv_handler.py, src/csv_handler.py, src/main04.py) are  *)
(* modelled side by side; the variable `variant' says which one runs.      *)
(*                                                                         *)
(* Text is modelled by TLA+ strings, read character by character with      *)
(* SubSeq/Len.  The float read from a cell is modelled by the decimal      *)
(* m * 10^-e of its text, or by an infinity when the text is too large for *)
(* a float, and a sum of floats by the double it is.                       *)
(***************************************************************************)
EXTENDS Integers, Sequences, FiniteSets, TLC

(***************************************************************************)
(* Text helpers (Python str methods and the re.sub calls of the source).   *)
(***************************************************************************)
Char(s, i) == SubSeq(s, i, i)

\* the least and the greatest of a set of positions, 0 when it is empty
Least(S) == IF S = {} THEN 0 ELSE CHOOSE k \in S : \A j \in S : k <= j
Greatest(S) == IF S = {} THEN 0 ELSE CHOOSE k \in S : \A j \in S : k >= j

\* position of the first c at or after position i, 0 when there is none
FindFrom(s, c, i) == Least({k \in i..Len(s) : Char(s, k) = c})

\* position of the last c at or before position i, 0 when there is none
FindBack(s, c, i) == Greatest({k \in 1..i : Char(s, k) = c})

\* c in s
Contains(s, c) == FindFrom(s, c, 1) # 0

\* str.count(c) for a one-character c
Count(s, c) == Cardinality({i \in 1..Len(s) : Char(s, i) = c})

\* str.rfind(c): 1-based position of the last c, 0 when there is none
\* (Python returns the 0-based position and -1; only the order is used).
RFind(s, c) == FindBack(s, c, Len(s))

\* position of the first c, 0 when there is none
Find(s, c) == FindFrom(s, c, 1)

\* None as a text argument, a cell value or a key, told apart from every text
NoneCell == "<None>"

\* value or ""
OrEmpty(v) == IF v = NoneCell THEN "" ELSE v

\* the characters str.strip() removes (str.isspace) that the model's texts use
WhitespaceChars == {" ", "\t", "\n", "\r", " "}

RECURSIVE LStripChars(_, _)
LStripChars(s, cs) ==
    IF Len(s) > 0 /\ Char(s, 1) \in cs THEN LStripChars(Tail(s), cs) ELSE s

RECURSIVE RStripChars(_, _)
RStripChars(s, cs) ==
    IF Len(s) > 0 /\ Char(s, Len(s)) \in cs
    THEN RStripChars(SubSeq(s, 1, Len(s) - 1), cs)
    ELSE s

StripChars(s, cs) == RStripChars(LStripChars(s, cs), cs)

\* str.strip()
Strip(s) == StripChars(s, WhitespaceChars)

\* "".join(parts); the texts are joined by halves, so that a cell of
\* hundreds of characters is rewritten in a few steps
JoinPair(halves) == halves[1] \o halves[2]
RECURSIVE Join(_)
Join(parts) ==
    IF Len(parts) = 0 THEN ""
    ELSE IF Len(parts) = 1 THEN parts[1]
    ELSE JoinPair([h \in 1..2 |->
            Join(IF h = 1 THEN SubSeq(parts, 1, Len(parts) \div 2)
                 ELSE SubSeq(parts, Len(parts) \div 2 + 1, Len(parts)))])

\* re.sub(r"[cs]", "", s)
RemoveChars(s, cs) ==
    Join([i \in 1..Len(s) |-> IF Char(s, i) \in cs THEN "" ELSE Char(s, i)])

\* re.sub(r"[^cs]", "", s)
KeepChars(s, cs) ==
    Join([i \in 1..Len(s) |-> IF Char(s, i) \in cs THEN Char(s, i) ELSE ""])

\* str.replace(a, b) for one-character a and a string b
Replace(s, a, b) ==
    Join([i \in 1..Len(s) |-> IF Char(s, i) = a THEN b ELSE Char(s, i)])

\* the character of `to' at the position `c' has in `from', c itself otherwise
Translate(c, from, to) ==
    LET i == Find(from, c) IN IF i = 0 THEN c ELSE Char(to, i)

DigitChars == {"0", "1", "2", "3", "4", "5", "6", "7", "8", "9"}
LowerLetters ==
    {"a", "b", "c", "d", "e", "f", "g", "h", "i", "j", "k", "l", "m",
     "n", "o", "p", "q", "r", "s", "t", "u", "v", "w", "x", "y", "z"}
UpperAlphabet == "ABCDEFGHIJKLMNOPQRSTUVWXYZ"
LowerAlphabet == "abcdefghijklmnopqrstuvwxyz"
UpperLetters == {Char(UpperAlphabet, i) : i \in 1..Len(UpperAlphabet)}

IsDigits(s) == \A i \in 1..Len(s) : Char(s, i) \in DigitChars

DigitVal(c) == Find("0123456789", c) - 1

\* int(s) for a string of ASCII digits ("" gives 0)
RECURSIVE ToInt(_)
ToInt(s) ==
    IF Len(s) = 0 THEN 0
    ELSE 10 * ToInt(SubSeq(s, 1, Len(s) - 1)) + DigitVal(Char(s, Len(s)))

\* str(n) for n >= 0
RECURSIVE IntToStr(_)
IntToStr(n) ==
    IF n < 10 THEN Char("0123456789", n + 1)
    ELSE IntToStr(n \div 10) \o Char("0123456789", (n % 10) + 1)

RECURSIVE Pow10(_)
Pow10(k) == IF k = 0 THEN 1 ELSE 10 * Pow10(k - 1)

\* n written with at least w digits, zero padded on the left
RECURSIVE ZeroPad(_, _)
ZeroPad(s, w) == IF Len(s) >= w THEN s ELSE ZeroPad("0" \o s, w)

(***************************************************************************)
(* Text Normalizer: strip_accents and normalize_header.                    *)
(***************************************************************************)
\* Letters whose NFD form is a base letter followed by combining marks
\* (category Mn), and their base letters.
AccentedChars == "àâäçéèêëîïôöùûüÀÂÇÉÈÊÎÔÙ"
AccentBases   == "aaaceeeeiioouuuAACEEEIOU"
AccentedSet   == {Char(AccentedChars, i) : i \in 1..Len(AccentedChars)}

\* the characters of NFD(s) that are not combining marks
RECURSIVE StripMarks(_)
StripMarks(s) ==
    IF Len(s) = 0 THEN ""
    ELSE (IF Char(s, 1) \in AccentedSet
          THEN Translate(Char(s, 1), AccentedChars, AccentBases)
          ELSE Char(s, 1)) \o StripMarks(Tail(s))

\* if s is None: return ""
strip_accents(s) == IF s = NoneCell THEN "" ELSE StripMarks(s)

\* str.lower() on the model's characters: the capitals, accented or not
UpperChars == UpperAlphabet \o "ÀÂÇÉÈÊÎÔÙ"
LowerChars == LowerAlphabet \o "àâçéèêîôù"

UpperSet == {Char(UpperChars, i) : i \in 1..Len(UpperChars)}

RECURSIVE Lower(_)
Lower(s) ==
    IF Len(s) = 0 THEN ""
    ELSE (IF Char(s, 1) \in UpperSet
          THEN Translate(Char(s, 1), UpperChars, LowerChars)
          ELSE Char(s, 1)) \o Lower(Tail(s))

\* \w of a Python str pattern, on the model's characters: what is
\* alphanumeric for Unicode (the letters, accented or not, the digits, and
\* the superscript two, which is a digit that is not decimal) and "_"
WordChars ==
    LowerLetters \cup UpperLetters \cup AccentedSet \cup DigitChars \cup {"²", "_"}

\* re.sub(r"[^\w]+", "_", h): every maximal run of non-word characters
\* becomes one underscore
RECURSIVE SubNonWordRuns(_, _)
SubNonWordRuns(s, inRun) ==
    IF Len(s) = 0 THEN ""
    ELSE IF Char(s, 1) \in WordChars
         THEN Char(s, 1) \o SubNonWordRuns(Tail(s), FALSE)
         ELSE (IF inRun THEN "" ELSE "_") \o SubNonWordRuns(Tail(s), TRUE)

\* re.sub(r"_+", "_", h)
RECURSIVE CollapseUnderscores(_, _)
CollapseUnderscores(s, inRun) ==
    IF Len(s) = 0 THEN ""
    ELSE IF Char(s, 1) = "_"
         THEN (IF inRun THEN "" ELSE "_") \o CollapseUnderscores(Tail(s), TRUE)
         ELSE Char(s, 1) \o CollapseUnderscores(Tail(s), FALSE)

\* a normaliser that forgets the final strip("_") (not the code)
normalize_header_unstripped(h) ==
    CollapseUnderscores(SubNonWordRuns(Strip(Lower(strip_accents(h))), FALSE), FALSE)

normalize_header(h) ==
    LET h1 == Strip(Lower(strip_accents(h)))
        h2 == SubNonWordRuns(h1, FALSE)
    IN  StripChars(CollapseUnderscores(h2, FALSE), {"_"})

(***************************************************************************)
(* Amounts.  A Python float is modelled by an exact decimal in sign and    *)
(* magnitude: the value (-1)^neg * mag * 10^-e, kept normalised (no        *)
(* trailing zero in the fraction).  The importer and the exporter never    *)
(* add or multiply amounts; they parse, compare with 0, take abs(), negate *)
(* and format, which the decimal form does exactly for the short texts of  *)
(* the model (Cents rounds as the double nearest to the decimal does).     *)
(* Only the aggregations and the totals add amounts; their sums are        *)
(* doubles in binary form (ToDouble, FloatAdd, below).                     *)
(* -0.0 is kept apart from 0.0 (they format differently) and FloatEq is    *)
(* Python's ==.  None is the absent amount.  float() raises no error on a  *)
(* text of digits too large for a double: it returns inf, which is an      *)
(* amount like the others (`inf' is set, mag and e are not used).          *)
(***************************************************************************)
None == [some |-> FALSE, neg |-> FALSE, inf |-> FALSE, mag |-> 0, e |-> 0]

RECURSIVE Float(_, _, _)
Float(neg, mag, e) ==
    IF e > 0 /\ mag % 10 = 0 THEN Float(neg, mag \div 10, e - 1)
    ELSE [some |-> TRUE, neg |-> neg, inf |-> FALSE, mag |-> mag, e |-> e]

\* float('inf'), and float('-inf') when neg
Infinity(neg) == [some |-> TRUE, neg |-> neg, inf |-> TRUE, mag |-> 0, e |-> 0]

IsNone(x) == ~x.some
\* abs(x), -x, x < 0, x > 0, x == y for floats
Abs(x) == [x EXCEPT !.neg = FALSE]
Neg(x) == [x EXCEPT !.neg = ~x.neg]
IsNeg(x) == x.some /\ x.neg /\ (x.inf \/ x.mag > 0)
IsPos(x) == x.some /\ ~x.neg /\ (x.inf \/ x.mag > 0)
IsZero(x) == x.some /\ ~x.inf /\ x.mag = 0
FloatEq(x, y) == x.some /\ y.some /\ (x = y \/ (IsZero(x) /\ IsZero(y)))
\* equality of two optional amounts (None == None, else ==)
AmountEq(x, y) == (IsNone(x) /\ IsNone(y)) \/ FloatEq(x, y)
Zero == Float(FALSE, 0, 0)

\* the least decimal float() reads as inf: 2^1024 - 2^970, half a unit in
\* the last place above sys.float_info.max (the tie goes to the even
\* significand, which is that of 2^1024)
FloatOverflow ==
    "1797693134862315807937289714053034150799341327100378269361737789"
    \o "8044496829276475094664901797758720709633028641669288791094655554"
    \o "7851940402630657488671505820681908902000708383676273854845817711"
    \o "5317644757302700698555713669596228429148198608349364752927190741"
    \o "68444365510704342711559699508093042880177904174497792"

\* a < b for two texts of digits of the same length: the first digit
\* that differs decides
DigitsLess(a, b) ==
    LET differ == {i \in 1..Len(a) : Char(a, i) # Char(b, i)}
    IN  /\ differ # {}
        /\ LET first == CHOOSE i \in differ : \A k \in differ : i <= k
           IN  DigitVal(Char(a, first)) < DigitVal(Char(b, first))

\* the number whose integer part is written ip is FloatOverflow or more
\* (FloatOverflow is an integer, so the fraction digits do not count)
Overflows(ip) ==
    LET digits == LStripChars(ip, {"0"})
    IN  \/ Len(digits) > Len(FloatOverflow)
        \/ Len(digits) = Len(FloatOverflow) /\ ~DigitsLess(digits, FloatOverflow)

\* float(text) for a text over the characters 0-9 . + - : the value, inf
\* when it is too large, or None where Python raises ValueError.
PyFloat(text) ==
    LET signed == Len(text) > 0 /\ Char(text, 1) \in {"+", "-"}
        body   == IF signed THEN Tail(text) ELSE text
        dot    == Find(body, ".")
        ip     == IF dot = 0 THEN body ELSE SubSeq(body, 1, dot - 1)
        fp     == IF dot = 0 THEN "" ELSE SubSeq(body, dot + 1, Len(body))
        valid  == /\ IsDigits(ip) /\ IsDigits(fp)
                  /\ Len(ip) + Len(fp) > 0
    IN  IF ~valid THEN None
        ELSE IF Overflows(ip) THEN Infinity(signed /\ Char(text, 1) = "-")
        ELSE Float(signed /\ Char(text, 1) = "-", ToInt(ip \o fp), Len(fp))

(***************************************************************************)
(* Amount Parser: _parse_amount / parse_amount.  The three variants differ *)
(* only in names; raw is the cell text.                                    *)
(***************************************************************************)
\* _AMOUNT_SPACES / _AMOUNT_SEP_RE: [  ]
AmountSpaces == {" ", " "}

\* the text once the wrapping parentheses are removed
Unwrapped(text) ==
    IF Len(text) > 0 /\ Char(text, 1) = "(" /\ Char(text, Len(text)) = ")"
    THEN SubSeq(text, 2, Len(text) - 1)
    ELSE text

IsWrapped(text) ==
    Len(text) > 0 /\ Char(text, 1) = "(" /\ Char(text, Len(text)) = ")"

\* a first rule that does not look for a period (not the code)
SingleCommaRuleAnyPeriod(text) ==
    Contains(text, ",") /\ Count(text, ",") = 1

\* rule 1: exactly one comma and no period
SingleCommaRule(text) ==
    Contains(text, ",") /\ Count(text, ",") = 1 /\ ~Contains(text, ".")

\* rule 2: a comma and a period, the last comma after the last period
LastCommaRule(text) ==
    Contains(text, ",") /\ Contains(text, ".") /\ RFind(text, ",") > RFind(text, ".")

\* a rewriting whose second rule ignores where the last comma is (not the code)
NormalizeSeparatorsAnyOrder(text) ==
    LET t1 == IF SingleCommaRule(text) THEN Replace(text, ",", ".") ELSE text
    IN  IF Contains(t1, ",") /\ Contains(t1, ".")
        THEN Replace(Replace(t1, ".", ""), ",", ".")
        ELSE t1

\* the two separator rewritings, in source order
NormalizeSeparators(text) ==
    LET t1 == IF SingleCommaRule(text) THEN Replace(text, ",", ".") ELSE text
    IN  IF LastCommaRule(t1) THEN Replace(Replace(t1, ".", ""), ",", ".") ELSE t1

\* which of the two rewritings a call applies, in source order: "", "1",
\* "2" or "12"
RewritesApplied(raw) ==
    LET text == RemoveChars(Unwrapped(Strip(raw)), AmountSpaces)
        t1   == IF SingleCommaRule(text) THEN Replace(text, ",", ".") ELSE text
    IN  IF raw = NoneCell \/ Strip(raw) = "" THEN ""
        ELSE (IF SingleCommaRule(text) THEN "1" ELSE "")
             \o (IF LastCommaRule(t1) THEN "2" ELSE "")

\* re.sub(r"[^0-9.+-]", "", text)
CleanAmount(text) == KeepChars(text, DigitChars \cup {".", "+", "-"})

\* a sign rule that negates without abs (not the code)
ApplySignNegate(amount, negative) == IF negative THEN Neg(amount) ELSE amount

\* -abs(amount) if negative else amount
ApplySign(amount, negative) == IF negative THEN Neg(Abs(amount)) ELSE amount

\* the outcome of a step: the value it returns, or that it raised
Returns(value) == [raised |-> FALSE, value |-> value]
Raises == [raised |-> TRUE, value |-> None]

\* float(text): the value, or ValueError
float_attempt(text) ==
    LET amount == PyFloat(text) IN IF IsNone(amount) THEN Raises ELSE Returns(amount)

\* a float(text) whose ValueError nobody catches (not the code)
Uncaught(attempt) == attempt
\* try: ... except ValueError: return None
CatchValueError(attempt) == IF attempt.raised THEN Returns(None) ELSE attempt

\* the text parse_amount hands to float(): trimmed, unwrapped, without
\* spaces, its separators rewritten, every other character removed
CleanedText(raw) ==
    CleanAmount(NormalizeSeparators(RemoveChars(Unwrapped(Strip(raw)), AmountSpaces)))

\* one call of parse_amount: what it returns, or that it raised
parse_amount_call(raw) ==
    LET text     == Strip(raw)
        negative == IsWrapped(text)
        cleaned  == CleanedText(raw)
        attempt  == CatchValueError(float_attempt(cleaned))
    IN  IF raw = NoneCell THEN Returns(None)
        ELSE IF text = "" THEN Returns(None)
        ELSE IF cleaned \in {"", "+", "-"} THEN Returns(None)
        ELSE IF attempt.raised \/ IsNone(attempt.value) THEN attempt
        ELSE Returns(ApplySign(attempt.value, negative))

\* the value of parse_amount(raw)
parse_amount(raw) == parse_amount_call(raw).value

(***************************************************************************)
(* f"{x:.2f}" of OperationBancaire.to_dict_export: the amount rounded to   *)
(* two decimals.  Python rounds the binary double, float(text), and not    *)
(* the decimal.  For a decimal with at most two fraction digits the text   *)
(* is exact, and with more digits the nearest cent is taken.  When the     *)
(* decimal is an exact tie (a remainder of exactly half a cent) the double *)
(* nearest to it decides: it is below the decimal (0.155, 2.675: the cent  *)
(* below), above it (0.005: the cent above), or the decimal itself (0.125: *)
(* the even cent).  An infinite amount is written inf or -inf.             *)
(***************************************************************************)
\* the exponent j of the double nearest to mag / den: 2^j <= mag / den < 2^(j+1)
RECURSIVE Log2Floor(_, _)
Log2Floor(mag, den) ==
    IF mag < den THEN Log2Floor(2 * mag, den) - 1
    ELSE IF 2 * den <= mag THEN Log2Floor(mag, 2 * den) + 1
    ELSE 0

\* (r * 2^s) mod m
RECURSIVE MulPow2Mod(_, _, _)
MulPow2Mod(r, s, m) == IF s = 0 THEN r % m ELSE MulPow2Mod((2 * r) % m, s - 1, m)

\* where float(text) is, next to the decimal mag * 10^-e (mag > 0) it was
\* read from: the 53-bit significand is mag * 2^s / 10^e rounded to the
\* nearest integer, half to even
DoubleSide(mag, e) ==
    LET den == Pow10(e)
        s   == 52 - Log2Floor(mag, den)
        t   == MulPow2Mod(mag % (2 * den), s, 2 * den)
        r   == t % den
        odd == t >= den
    IN  IF r = 0 THEN "exact"
        ELSE IF 2 * r > den THEN "above"
        ELSE IF 2 * r < den THEN "below"
        ELSE IF odd THEN "above" ELSE "below"

Cents(x) ==
    IF x.e <= 2 THEN x.mag * Pow10(2 - x.e)
    ELSE LET unit == Pow10(x.e - 2)
             q    == x.mag \div unit
             r    == x.mag % unit
         IN  IF 2 * r > unit THEN q + 1
             ELSE IF 2 * r < unit THEN q
             ELSE LET side == DoubleSide(x.mag, x.e)
                  IN  IF side = "above" THEN q + 1
                      ELSE IF side = "below" THEN q
                      ELSE IF q % 2 = 0 THEN q ELSE q + 1

Format2f(x) ==
    IF x.inf THEN (IF x.neg THEN "-inf" ELSE "inf")
    ELSE LET c == Cents(x)
         IN  (IF x.neg THEN "-" ELSE "")
             \o IntToStr(c \div 100) \o "." \o ZeroPad(IntToStr(c % 100), 2)

(***************************************************************************)
(* Sums of amounts.  The aggregations and the totals add floats (+=, sum,  *)
(* and the difference credit - debit), and a sum of doubles is a double    *)
(* that no short decimal names: 0.1 + 0.2 is 0.30000000000000004.  So a    *)
(* total is kept as the double itself, in sign, significand and exponent:  *)
(* (-1)^neg * (hi * 2^30 + lo) * 2^exp with 2^52 <= hi * 2^30 + lo < 2^53  *)
(* (the hexadecimal digits and the exponent float.hex() writes, exp being  *)
(* its exponent less 52), and hi = lo = exp = 0 for 0.0 and -0.0.  The     *)
(* significand is in two parts because it does not fit an integer of the   *)
(* model checker.  ToDouble is float(text) on the decimal an amount was    *)
(* read from, FloatAdd is the IEEE 754 addition, rounded to nearest, ties  *)
(* to even: a sum above the largest double is inf, an infinite amount      *)
(* makes a total inf, and inf - inf is nan (`inf' and `nan' are set, the   *)
(* other parts are not used).  The amounts are far from the subnormal      *)
(* range.                                                                  *)
(***************************************************************************)
\* 2^k for k in 0 .. 30
TwoPowers ==
    <<1, 2, 4, 8, 16, 32, 64, 128, 256, 512, 1024, 2048, 4096, 8192, 16384,
      32768, 65536, 131072, 262144, 524288, 1048576, 2097152, 4194304,
      8388608, 16777216, 33554432, 67108864, 134217728, 268435456,
      536870912, 1073741824>>

TwoPow(k) == TwoPowers[k + 1]

\* the two parts of a significand hi * 2^30 + lo
LimbBase == TwoPow(30)

Sig(hi, lo) == [hi |-> hi, lo |-> lo]

Double(neg, hi, lo, exp) ==
    [some |-> TRUE, neg |-> neg, inf |-> FALSE, nan |-> FALSE,
     hi |-> hi, lo |-> lo, exp |-> exp]

\* inf, -inf when neg, and nan
DoubleInf(neg) == [Double(neg, 0, 0, 0) EXCEPT !.inf = TRUE]
DoubleNaN == [Double(FALSE, 0, 0, 0) EXCEPT !.nan = TRUE]

\* 0.0
DoubleZero == Double(FALSE, 0, 0, 0)

IsDoubleZero(x) == ~x.inf /\ ~x.nan /\ x.hi = 0 /\ x.lo = 0

\* x == y on two doubles (nan equals nothing)
DoubleEq(x, y) == ~x.nan /\ ~y.nan /\ (x = y \/ (IsDoubleZero(x) /\ IsDoubleZero(y)))

SigAdd(a, b) ==
    LET lo == a.lo + b.lo
    IN  Sig(a.hi + b.hi + lo \div LimbBase, lo % LimbBase)

\* a - b for a >= b
SigSub(a, b) ==
    LET lo == a.lo - b.lo
    IN  IF lo < 0 THEN Sig(a.hi - b.hi - 1, lo + LimbBase) ELSE Sig(a.hi - b.hi, lo)

SigLess(a, b) == a.hi < b.hi \/ (a.hi = b.hi /\ a.lo < b.lo)

\* s * 2^k for k < 30
SigShl(s, k) ==
    LET cut == TwoPow(30 - k)
    IN  Sig(s.hi * TwoPow(k) + s.lo \div cut, (s.lo % cut) * TwoPow(k))

\* s shifted right by k bits; the last bit of the result is set when a one
\* was shifted out (the sticky bit of the addition)
SigShrSticky(s, k) ==
    IF k = 0 THEN s
    ELSE IF k >= 60 THEN Sig(0, IF s.hi = 0 /\ s.lo = 0 THEN 0 ELSE 1)
    ELSE IF k >= 30
         THEN LET cut  == TwoPow(k - 30)
                  q    == s.hi \div cut
                  lost == s.lo # 0 \/ s.hi % cut # 0
              IN  Sig(0, IF lost /\ q % 2 = 0 THEN q + 1 ELSE q)
         ELSE LET cut  == TwoPow(k)
                  q    == s.lo \div cut + (s.hi % cut) * TwoPow(30 - k)
                  lost == s.lo % cut # 0
              IN  Sig(s.hi \div cut, IF lost /\ q % 2 = 0 THEN q + 1 ELSE q)

\* how many bits of a quotient by d one division gives: d * 2^c <= 2^31
ChunkBits(d) ==
    IF d < TwoPow(5) THEN 26 ELSE IF d < TwoPow(15) THEN 16
    ELSE IF d < TwoPow(23) THEN 8 ELSE 1

\* the k next bits of n / d for n < 2 * d, after the bits q, and what is
\* left of n: the long division, several bits at a time
RECURSIVE DivBits(_, _, _, _)
DivBits(n, d, k, q) ==
    IF k = 0 THEN [q |-> q, n |-> n]
    ELSE LET c == IF k < ChunkBits(d) THEN k ELSE ChunkBits(d)
             t == n * TwoPow(c - 1)
         IN  DivBits(2 * (t % d), d, k - c, SigAdd(SigShl(q, c), Sig(0, t \div d)))

\* the double of significand hi, lo (2^52 or more) at the exponent exp,
\* inf when it is above the largest double, (2^53 - 1) * 2^971
DoubleOrInf(neg, hi, lo, exp) ==
    IF exp > 971 THEN DoubleInf(neg) ELSE Double(neg, hi, lo, exp)

\* the 53-bit significand m, one more when `up', at the exponent exp
RoundedDouble(neg, m, up, exp) ==
    LET r == IF up THEN SigAdd(m, Sig(0, 1)) ELSE m
    IN  IF r.hi = TwoPow(23) THEN DoubleOrInf(neg, TwoPow(22), 0, exp + 1)
        ELSE DoubleOrInf(neg, r.hi, r.lo, exp)

\* the 54 bits r.q of a quotient and what the division left, r.n, rounded
\* to 53 bits: up when the last bit is set and either something is left or
\* the bit before it is set (the tie goes to the even significand)
RoundedQuotient(neg, r, exp) ==
    RoundedDouble(neg,
                  Sig(r.q.hi \div 2, r.q.lo \div 2 + (r.q.hi % 2) * TwoPow(29)),
                  r.q.lo % 2 = 1 /\ (r.n # 0 \/ r.q.lo % 4 = 3),
                  exp)

\* num / den as a double, for 2^j <= num / den < 2^(j + 1)
Quotient(neg, num, den, j) ==
    RoundedQuotient(neg,
                    DivBits(IF j >= 0 THEN num ELSE num * TwoPow(-j),
                            IF j >= 0 THEN den * TwoPow(j) ELSE den,
                            54, Sig(0, 0)),
                    j - 52)

\* float(text) for the decimal x the text names (mag < 2^30, e <= 9): the
\* nearest double, a tie going to the even significand
ToDouble(x) ==
    IF x.inf THEN DoubleInf(x.neg)
    ELSE IF x.mag = 0 THEN Double(x.neg, 0, 0, 0)
    ELSE Quotient(x.neg, x.mag, Pow10(x.e), Log2Floor(x.mag, Pow10(x.e)))

\* a significand with three more bits brought to 2^55 <= s < 2^56, the
\* exponent moving with it
RECURSIVE Normalized(_, _)
Normalized(s, exp) ==
    IF s.hi >= TwoPow(26) THEN Normalized(SigShrSticky(s, 1), exp + 1)
    ELSE IF s.hi < TwoPow(25) THEN Normalized(SigShl(s, 1), exp - 1)
    ELSE [sig |-> s, exp |-> exp]

\* a normalised sum n without its three last bits, which decide the
\* rounding: up when they are more than a half, or a half and the bit
\* before them is set
RoundedSum(neg, n) ==
    RoundedDouble(neg,
                  Sig(n.sig.hi \div 8, n.sig.lo \div 8 + (n.sig.hi % 8) * TwoPow(27)),
                  n.sig.lo % 8 > 4 \/ n.sig.lo % 16 = 12,
                  n.exp)

\* the sum or the difference s of two significands at the exponent exp
SumOf(neg, s, exp) ==
    IF s.hi = 0 /\ s.lo = 0 THEN DoubleZero ELSE RoundedSum(neg, Normalized(s, exp))

\* a + b for two doubles that are not zero, a the larger in magnitude: the
\* significands with three more bits (guard, round, sticky), b shifted to
\* the exponent of a, added when the signs agree and subtracted otherwise
AddOrdered(a, b) ==
    SumOf(a.neg,
          IF a.neg = b.neg
          THEN SigAdd(SigShl(a, 3), SigShrSticky(SigShl(b, 3), a.exp - b.exp))
          ELSE SigSub(SigShl(a, 3), SigShrSticky(SigShl(b, 3), a.exp - b.exp)),
          a.exp)

\* |x| >= |y| for two doubles that are not zero
Outweighs(x, y) == x.exp > y.exp \/ (x.exp = y.exp /\ ~SigLess(x, y))

\* x + y on two doubles, rounded to nearest, ties to even; nan when an
\* operand is nan or the operands are the two infinities
FloatAdd(x, y) ==
    IF x.nan \/ y.nan \/ (x.inf /\ y.inf /\ x.neg # y.neg) THEN DoubleNaN
    ELSE IF x.inf THEN x
    ELSE IF y.inf THEN y
    ELSE IF IsDoubleZero(x) /\ IsDoubleZero(y) THEN Double(x.neg /\ y.neg, 0, 0, 0)
    ELSE IF IsDoubleZero(x) THEN y
    ELSE IF IsDoubleZero(y) THEN x
    ELSE AddOrdered(IF Outweighs(x, y) THEN x ELSE y, IF Outweighs(x, y) THEN y ELSE x)

\* x - y
FloatSub(x, y) == FloatAdd(x, Neg(y))

\* x < y on two doubles (false when one is nan)
FloatLess(x, y) ==
    LET below(a, b) == a.exp < b.exp \/ (a.exp = b.exp /\ SigLess(a, b))
    IN  IF x.nan \/ y.nan THEN FALSE
        ELSE IF x.inf \/ y.inf
        THEN \/ x.inf /\ x.neg /\ ~(y.inf /\ y.neg)
             \/ y.inf /\ ~y.neg /\ ~(x.inf /\ ~x.neg)
        ELSE IF IsDoubleZero(x) THEN ~IsDoubleZero(y) /\ ~y.neg
        ELSE IF IsDoubleZero(y) THEN x.neg
        ELSE IF x.neg # y.neg THEN x.neg
        ELSE IF x.neg THEN below(y, x)
        ELSE below(x, y)

(***************************************************************************)
(* Date Parser: _parse_date / parse_date.                                  *)
(***************************************************************************)
\* str.split(c) for a one-character c
RECURSIVE SplitChar(_, _)
SplitChar(s, c) ==
    LET i == Find(s, c)
    IN  IF i = 0 THEN <<s>>
        ELSE <<SubSeq(s, 1, i - 1)>> \o SplitChar(SubSeq(s, i + 1, Len(s)), c)

\* position of the first character of s that is in cs, 0 without one
RECURSIVE FirstInFrom(_, _, _)
FirstInFrom(s, cs, i) ==
    IF i > Len(s) THEN 0
    ELSE IF Char(s, i) \in cs THEN i
    ELSE FirstInFrom(s, cs, i + 1)

FirstIn(s, cs) == FirstInFrom(s, cs, 1)

\* re.split(r"\s+", s): the parts between runs of whitespace
RECURSIVE SplitRuns(_, _)
SplitRuns(s, cs) ==
    LET i == FirstIn(s, cs)
    IN  IF i = 0 THEN <<s>>
        ELSE <<SubSeq(s, 1, i - 1)>>
             \o SplitRuns(LStripChars(SubSeq(s, i, Len(s)), cs), cs)

\* _DATE_FORMATS, in source order: the order of the three fields, the
\* separator between them and the directive of the month.
DATE_FORMATS ==
    << [order |-> "dmy", sep |-> "/", month |-> "m"],   \* %d/%m/%Y
       [order |-> "ymd", sep |-> "-", month |-> "m"],   \* %Y-%m-%d
       [order |-> "dmy", sep |-> "-", month |-> "m"],   \* %d-%m-%Y
       [order |-> "dmy", sep |-> ".", month |-> "m"],   \* %d.%m.%Y
       [order |-> "dmy", sep |-> " ", month |-> "m"],   \* %d %m %Y
       [order |-> "dmy", sep |-> " ", month |-> "b"],   \* %d %b %Y
       [order |-> "dmy", sep |-> " ", month |-> "B"],   \* %d %B %Y
       [order |-> "ymd", sep |-> "/", month |-> "m"] >> \* %Y/%m/%d

MonthAbbr == <<"jan", "feb", "mar", "apr", "may", "jun",
               "jul", "aug", "sep", "oct", "nov", "dec">>
MonthFull == <<"january", "february", "march", "april", "may", "june", "july",
               "august", "september", "october", "november", "december">>

NoDate == [ok |-> FALSE, y |-> 0, m |-> 0, d |-> 0]

\* the regular expressions strptime builds for %d, %m, %Y, %b and %B
\* (0 where the text does not match)
DayOf(p) ==
    IF Len(p) = 2 /\ Char(p, 1) = " " /\ Char(p, 2) \in DigitChars \ {"0"}
    THEN ToInt(Tail(p))
    ELSE IF Len(p) \in {1, 2} /\ IsDigits(p) /\ ToInt(p) \in 1..31 THEN ToInt(p)
    ELSE 0

MonthNumOf(p) ==
    IF Len(p) \in {1, 2} /\ IsDigits(p) /\ ToInt(p) \in 1..12 THEN ToInt(p) ELSE 0

MonthNameOf(p, names) ==
    IF \E i \in 1..12 : names[i] = Lower(p)
    THEN CHOOSE i \in 1..12 : names[i] = Lower(p)
    ELSE 0

MonthOf(p, directive) ==
    CASE directive = "m" -> MonthNumOf(p)
      [] directive = "b" -> MonthNameOf(p, MonthAbbr)
      [] directive = "B" -> MonthNameOf(p, MonthFull)

YearOf(p) == IF Len(p) = 4 /\ IsDigits(p) THEN ToInt(p) ELSE -1

IsLeap(y) == (y % 4 = 0 /\ y % 100 # 0) \/ y % 400 = 0

DaysInMonth(y, m) ==
    IF m = 2 THEN (IF IsLeap(y) THEN 29 ELSE 28)
    ELSE IF m \in {4, 6, 9, 11} THEN 30 ELSE 31

\* datetime(y, m, d): ValueError for year 0, for a month past 12 and for a
\* day the month lacks
MakeDate(y, m, d) ==
    IF y >= 1 /\ m >= 1 /\ m <= 12 /\ d >= 1 /\ d <= DaysInMonth(y, m)
    THEN [ok |-> TRUE, y |-> y, m |-> m, d |-> d]
    ELSE NoDate

\* datetime.strptime(s, fmt).date(), NoDate where it raises ValueError
strptime(s, fmt) ==
    LET parts == IF fmt.sep = " " THEN SplitRuns(s, WhitespaceChars)
                 ELSE SplitChar(s, fmt.sep)
        dp    == IF fmt.order = "dmy" THEN parts[1] ELSE parts[3]
        yp    == IF fmt.order = "dmy" THEN parts[3] ELSE parts[1]
        d     == DayOf(dp)
        m     == MonthOf(parts[2], fmt.month)
        y     == YearOf(yp)
    IN  IF Len(parts) # 3 THEN NoDate
        ELSE IF d = 0 \/ m = 0 \/ y < 0 THEN NoDate
        ELSE MakeDate(y, m, d)

\* date.isoformat()
isoformat(dt) ==
    ZeroPad(IntToStr(dt.y), 4) \o "-" \o ZeroPad(IntToStr(dt.m), 2)
        \o "-" \o ZeroPad(IntToStr(dt.d), 2)

\* the first format of the list, from position i on, that parses s
RECURSIVE TryFormats(_, _)
TryFormats(s, i) ==
    IF i > Len(DATE_FORMATS) THEN NoDate
    ELSE LET dt == strptime(s, DATE_FORMATS[i])
         IN  IF dt.ok THEN dt ELSE TryFormats(s, i + 1)

(***************************************************************************)
(* datetime.fromisoformat(s).date() of Python 3.11: a calendar date        *)
(* (YYYY-MM-DD, YYYYMMDD) or an ISO week date (YYYY-Www[-D], YYYYWww[D]),  *)
(* then, optionally, one character of any kind and a time of day with an   *)
(* optional UTC offset.  The C parser works on the bytes of a              *)
(* NUL-terminated string; indexes below are 0-based as in the C code.      *)
(***************************************************************************)
\* the byte at index i, "NUL" at and past the end of the string
CharAt(s, i) == IF i >= 0 /\ i < Len(s) THEN Char(s, i + 1) ELSE "NUL"

\* parse_digits: the number written by the n ASCII digits from index p,
\* -1 when they are not n digits
ParseDigits(s, p, n) ==
    IF n = 0 THEN 0
    ELSE IF p + n > Len(s) \/ ~IsDigits(SubSeq(s, p + 1, p + n)) THEN -1
    ELSE ToInt(SubSeq(s, p + 1, p + n))

\* _find_isoformat_datetime_separator (len(s) >= 7): the length of the
\* date part, -1 for an invalid text
find_isoformat_datetime_separator(s) ==
    LET n == Len(s)
        digits_end == LET stops == {i \in 7..(n - 1) : CharAt(s, i) \notin DigitChars}
                      IN  IF stops = {} THEN (IF n > 7 THEN n ELSE 7)
                          ELSE CHOOSE i \in stops : \A k \in stops : i <= k
    IN  IF n = 7 THEN 7
        ELSE IF CharAt(s, 4) = "-"
        THEN IF CharAt(s, 5) = "W"
             THEN IF n < 8 THEN -1
                  ELSE IF n > 8 /\ CharAt(s, 8) = "-"
                  THEN IF n = 9 THEN -1
                       ELSE IF n > 10 /\ CharAt(s, 10) \in DigitChars THEN 8
                       ELSE 10
                  ELSE 8
             ELSE 10
        ELSE IF CharAt(s, 4) = "W"
        THEN IF digits_end < 9 THEN digits_end
             ELSE IF digits_end % 2 = 0 THEN 7 ELSE 8
        ELSE 8

\* the days before 1 January of year y, and before the first of month m
DaysBeforeYear(y) ==
    LET z == y - 1 IN z * 365 + z \div 4 - z \div 100 + z \div 400

RECURSIVE DaysBeforeMonth(_, _)
DaysBeforeMonth(y, m) ==
    IF m = 1 THEN 0 ELSE DaysBeforeMonth(y, m - 1) + DaysInMonth(y, m - 1)

\* date.fromordinal(o) for an ordinal of the year y or of a year next to it
fromordinal(o, y) ==
    LET years == {z \in {y - 1, y, y + 1} :
                    z >= 1 /\ z <= 9999 /\ DaysBeforeYear(z) < o /\ o <= DaysBeforeYear(z + 1)}
    IN  IF years = {} THEN NoDate
        ELSE LET z == CHOOSE z \in years : TRUE
                 r == o - DaysBeforeYear(z)
                 m == CHOOSE m \in 1..12 :
                          DaysBeforeMonth(z, m) < r /\ r <= DaysBeforeMonth(z, m) + DaysInMonth(z, m)
             IN  MakeDate(z, m, r - DaysBeforeMonth(z, m))

\* _isoweek_to_gregorian(year, week, day)
isoweek_to_gregorian(year, week, day) ==
    LET first        == DaysBeforeYear(year) + 1
        long_year    == first % 7 = 4 \/ (first % 7 = 3 /\ IsLeap(year))
        first_wd     == (first + 6) % 7
        week1_monday == IF first_wd > 3 THEN first - first_wd + 7 ELSE first - first_wd
    IN  IF year < 1 \/ year > 9999 THEN NoDate
        ELSE IF week < 1 \/ week > 53 \/ (week = 53 /\ ~long_year) THEN NoDate
        ELSE IF day < 1 \/ day > 7 THEN NoDate
        ELSE fromordinal(week1_monday + (week - 1) * 7 + (day - 1), year)

\* parse_isoformat_date on the date part (7, 8 or 10 bytes)
parse_isoformat_date(d) ==
    LET year    == ParseDigits(d, 0, 4)
        has_sep == IF CharAt(d, 4) = "-" THEN 1 ELSE 0
        pos     == 4 + has_sep
        week    == ParseDigits(d, pos + 1, 2)
        wpos    == pos + 3
        wday    == IF Len(d) > wpos THEN ParseDigits(d, wpos + has_sep, 1) ELSE 1
        month   == ParseDigits(d, pos, 2)
        mday    == ParseDigits(d, pos + 2 + has_sep, 2)
    IN  IF year < 0 THEN NoDate
        ELSE IF CharAt(d, pos) = "W"
        THEN IF week < 0 THEN NoDate
             ELSE IF Len(d) > wpos /\ ((CharAt(d, wpos) = "-") # (has_sep = 1)) THEN NoDate
             ELSE IF wday < 0 THEN NoDate
             ELSE isoweek_to_gregorian(year, week, wday)
        ELSE IF month < 0 THEN NoDate
        ELSE IF (CharAt(d, pos + 2) = "-") # (has_sep = 1) THEN NoDate
        ELSE IF mday < 0 THEN NoDate
        ELSE MakeDate(year, month, mday)

\* the end of parse_hh_mm_ss_ff: the fraction, at most six digits read and
\* the following digits skipped; rv is 1 when text remains after it
ParseFraction(s, end, p, vals) ==
    LET remains  == end - p
        to_parse == IF remains >= 6 THEN 6 ELSE remains
        stops    == {i \in (p + to_parse)..Len(s) : CharAt(s, i) \notin DigitChars}
        stop     == CHOOSE i \in stops : \A k \in stops : i <= k
    IN  IF ParseDigits(s, p, to_parse) < 0 THEN [rv |-> -3, vals |-> vals]
        ELSE [rv |-> IF CharAt(s, stop) # "NUL" THEN 1 ELSE 0, vals |-> vals]

\* parse_hh_mm_ss_ff(tstr, tstr_end): HH[:?MM[:?SS[{.,}ffffff]]] read from
\* the text s up to index end; component i is read at index p
RECURSIVE parse_hh_mm_ss_ff(_, _, _, _, _, _)
parse_hh_mm_ss_ff(s, end, i, p, has_separator, vals) ==
    IF i = 3 THEN ParseFraction(s, end, p, vals)
    ELSE LET v    == ParseDigits(s, p, 2)
             c    == CharAt(s, p + 2)
             q    == p + 3
             has  == IF i = 0 THEN c = ":" ELSE has_separator
             read == [vals EXCEPT ![i + 1] = v]
         IN  IF v < 0 THEN [rv |-> -3, vals |-> vals]
             ELSE IF q >= end THEN [rv |-> IF c # "NUL" THEN 1 ELSE 0, vals |-> read]
             ELSE IF has /\ c = ":" THEN parse_hh_mm_ss_ff(s, end, i + 1, q, has, read)
             ELSE IF c \in {".", ","} THEN ParseFraction(s, end, q, read)
             ELSE IF ~has THEN parse_hh_mm_ss_ff(s, end, i + 1, q - 1, has, read)
             ELSE [rv |-> -4, vals |-> read]

\* the text as the bytes of its UTF-8 form: the characters of the model's
\* texts that are not ASCII (accented letters, the no-break space, the
\* superscript two) are two bytes each
RECURSIVE Utf8Bytes(_)
Utf8Bytes(s) ==
    IF Len(s) = 0 THEN ""
    ELSE (IF Char(s, 1) \in AccentedSet \cup {" ", "²"}
          THEN Char(s, 1) \o Char(s, 1) ELSE Char(s, 1))
         \o Utf8Bytes(Tail(s))

\* parse_isoformat_time on the text after the separator, and the range
\* tests of the datetime and timezone constructors: TRUE when there is a
\* valid time of day (and offset, which .date() then drops)
IsoformatTimeOk(tstr) ==
    LET t     == Utf8Bytes(tstr)
        n     == Len(t)
        marks == {i \in 0..(n - 1) : CharAt(t, i) \in {"Z", "+", "-"}}
        tz    == IF marks = {} THEN (IF n = 0 THEN 1 ELSE n)
                 ELSE CHOOSE i \in marks : \A k \in marks : i <= k
        time  == parse_hh_mm_ss_ff(t, tz, 0, 0, TRUE, <<0, 0, 0>>)
        rest  == SubSeq(t, tz + 2, n)
        zone  == parse_hh_mm_ss_ff(rest, Len(rest), 0, 0, TRUE, <<0, 0, 0>>)
        in_range == time.vals[1] < 24 /\ time.vals[2] < 60 /\ time.vals[3] < 60
    IN  IF time.rv < 0 THEN FALSE
        ELSE IF tz >= n THEN time.rv = 0 /\ in_range
        ELSE IF CharAt(t, tz) = "Z" THEN tz + 1 = n /\ in_range
        ELSE /\ zone.rv = 0
             /\ in_range
             /\ zone.vals[1] * 3600 + zone.vals[2] * 60 + zone.vals[3] < 86400

\* datetime.fromisoformat(s).date(), NoDate where it raises ValueError
fromisoformat(s) ==
    IF Len(s) < 7 THEN NoDate
    ELSE LET sep == find_isoformat_datetime_separator(s)
             dt  == parse_isoformat_date(SubSeq(s, 1, IF sep < Len(s) THEN sep ELSE Len(s)))
         IN  IF sep < 0 THEN NoDate
             ELSE IF ~dt.ok THEN NoDate
             ELSE IF Len(s) > sep /\ ~IsoformatTimeOk(SubSeq(s, sep + 2, Len(s))) THEN NoDate
             ELSE dt

\* re.sub(r"[ T].*$", "", value): the text is cut at its first space or T
\* that is followed by no line break up to the end (`.' does not match a
\* line break); a line break that ends the text is left by `$' and kept.
CutTime(value) ==
    LET n      == Len(value)
        starts == {i \in 1..n :
                     /\ Char(value, i) \in {" ", "T"}
                     /\ \A k \in (i + 1)..n : Char(value, k) = "\n" => k = n}
    IN  IF starts = {} THEN value
        ELSE LET i == CHOOSE i \in starts : \A k \in starts : i <= k
             IN  SubSeq(value, 1, i - 1)
                     \o (IF Char(value, n) = "\n" THEN "\n" ELSE "")

\* one candidate of src/csv_handler.py's loop: the formats, then ISO
ParseCandidate(c) ==
    LET dt == TryFormats(c, 1) IN IF dt.ok THEN dt ELSE fromisoformat(c)

\* _parse_date of src/ana_budget/csv_handler.py and parse_date of
\* src/main04.py: the formats on the value, the formats on the value cut
\* at its time of day, the ISO parse of the cut value, else the value.
parse_date_cut(raw) ==
    LET value   == Strip(OrEmpty(raw))
        cleaned == CutTime(value)
        whole   == TryFormats(value, 1)
        cut     == TryFormats(cleaned, 1)
        iso     == fromisoformat(cleaned)
    IN  IF value = "" THEN ""
        ELSE IF whole.ok THEN isoformat(whole)
        ELSE IF cleaned # value /\ cut.ok THEN isoformat(cut)
        ELSE IF iso.ok THEN isoformat(iso)
        ELSE value

\* parse_date of src/csv_handler.py: the candidates value and (when not
\* empty and different) the cut value, each tried on the formats and then
\* as ISO.
parse_date_candidates(raw) ==
    LET value == Strip(OrEmpty(raw))
        short == CutTime(value)
        whole == ParseCandidate(value)
        cut   == ParseCandidate(short)
    IN  IF value = "" THEN ""
        ELSE IF whole.ok THEN isoformat(whole)
        ELSE IF short # "" /\ short # value /\ cut.ok THEN isoformat(cut)
        ELSE value

Variants == {"ana_budget", "csv_handler", "main04"}

parse_date(v, raw) ==
    IF v = "csv_handler" THEN parse_date_candidates(raw) ELSE parse_date_cut(raw)

(***************************************************************************)
(* Field Alias Resolver: HEADER_ALIASES and map_headers_to_fields.         *)
(***************************************************************************)
\* the keys of HEADER_ALIASES, in declaration order (a dict keeps it)
InternalFields ==
    <<"date_comptabilisation", "libelle_simplifie", "libelle_operation",
      "reference", "informations_complementaires", "type_operation",
      "categorie", "sous_categorie", "debit", "credit", "montant">>

FieldSet == {InternalFields[i] : i \in 1..Len(InternalFields)}

\* the alias table with the amount column's name also among the debit aliases
HEADER_ALIASES_overlapping ==
    [date_comptabilisation |->
        <<"date_comptabilisation", "date", "date_operation", "date_valeur",
          "date_de_comptabilisation">>,
     libelle_simplifie |->
        <<"libelle_simplifie", "libelle_simplifiee", "libelle", "intitule",
          "description">>,
     libelle_operation |-> <<"libelle_operation", "details", "intitule_complet">>,
     reference |-> <<"reference", "ref", "id_operation", "numero_operation">>,
     informations_complementaires |->
        <<"informations_complementaires", "infos", "information", "note", "memo">>,
     type_operation |-> <<"type_operation", "type", "mode", "categorie_banque">>,
     categorie |-> <<"categorie", "category">>,
     sous_categorie |-> <<"sous_categorie", "sous_categ", "subcategory">>,
     debit |-> <<"debit", "montant_debit", "sortie", "amount_out", "montant">>,
     credit |-> <<"credit", "montant_credit", "entree", "amount_in", "montant_positif">>,
     montant |-> <<"montant", "amount", "valeur">>]

\* the alias table, each alias set written in the order of its declaration
HEADER_ALIASES ==
    [date_comptabilisation |->
        <<"date_comptabilisation", "date", "date_operation", "date_valeur",
          "date_de_comptabilisation">>,
     libelle_simplifie |->
        <<"libelle_simplifie", "libelle_simplifiee", "libelle", "intitule",
          "description">>,
     libelle_operation |-> <<"libelle_operation", "details", "intitule_complet">>,
     reference |-> <<"reference", "ref", "id_operation", "numero_operation">>,
     informations_complementaires |->
        <<"informations_complementaires", "infos", "information", "note", "memo">>,
     type_operation |-> <<"type_operation", "type", "mode", "categorie_banque">>,
     categorie |-> <<"categorie", "category">>,
     sous_categorie |-> <<"sous_categorie", "sous_categ", "subcategory">>,
     debit |-> <<"debit", "montant_debit", "sortie", "amount_out", "montant_negatif">>,
     credit |-> <<"credit", "montant_credit", "entree", "amount_in", "montant_positif">>,
     montant |-> <<"montant", "amount", "valeur">>]

Range(s) == {s[i] : i \in 1..Len(s)}

\* every arrangement of the set S as a sequence
Perms(S) ==
    {p \in [1..Cardinality(S) -> S] : \A i, j \in 1..Cardinality(S) : p[i] = p[j] => i = j}

(***************************************************************************)
(* The alias sets are Python set literals: `for alias in aliases' visits   *)
(* them in hash order, which string-hash randomisation changes from one    *)
(* process to the next and which is fixed within a process.  An iteration  *)
(* order is therefore any arrangement of each alias set.  Aliases that are *)
(* not among the headers presented (`present') never match, so they are    *)
(* kept last in declaration order: only the arrangement of the aliases     *)
(* that can match is enumerated.                                           *)
(***************************************************************************)
IterationOrdersOf(field, present) ==
    LET decl == HEADER_ALIASES[field]
        absent(a) == a \notin present
    IN  {p \o SelectSeq(decl, absent) : p \in Perms(Range(decl) \cap present)}

IterationOrders(present) ==
    [date_comptabilisation : IterationOrdersOf("date_comptabilisation", present),
     libelle_simplifie : IterationOrdersOf("libelle_simplifie", present),
     libelle_operation : IterationOrdersOf("libelle_operation", present),
     reference : IterationOrdersOf("reference", present),
     informations_complementaires :
        IterationOrdersOf("informations_complementaires", present),
     type_operation : IterationOrdersOf("type_operation", present),
     categorie : IterationOrdersOf("categorie", present),
     sous_categorie : IterationOrdersOf("sous_categorie", present),
     debit : IterationOrdersOf("debit", present),
     credit : IterationOrdersOf("credit", present),
     montant : IterationOrdersOf("montant", present)]

\* the order of the declaration itself
DeclarationOrder == HEADER_ALIASES

NoAlias == "<none>"

\* the inner loop of map_headers_to_fields: the first alias, in iteration
\* order, whose normalised form is among the headers; NoAlias without one
RECURSIVE FirstAlias(_, _, _)
FirstAlias(aliases, headers_set, i) ==
    IF i > Len(aliases) THEN NoAlias
    ELSE IF normalize_header(aliases[i]) \in headers_set
    THEN normalize_header(aliases[i])
    ELSE FirstAlias(aliases, headers_set, i + 1)

\* a resolver that scans the header list instead (not the code: the first
\* header, in file order, that is an alias of the field)
RECURSIVE FirstHeader(_, _, _)
FirstHeader(aliases, norm_headers, i) ==
    IF i > Len(norm_headers) THEN NoAlias
    ELSE IF norm_headers[i] \in {normalize_header(aliases[k]) : k \in 1..Len(aliases)}
    THEN norm_headers[i]
    ELSE FirstHeader(aliases, norm_headers, i + 1)

ResolveFieldByHeaderOrder(aliases, norm_headers) == FirstHeader(aliases, norm_headers, 1)

\* headers_set = set(norm_headers), then the alias loop of one field
ResolveField(aliases, norm_headers) == FirstAlias(aliases, Range(norm_headers), 1)

\* map_headers_to_fields under the iteration order `order': a function
\* from the resolved internal fields to their header
map_headers_to_fields(norm_headers, order) ==
    [f \in {g \in FieldSet : ResolveField(order[g], norm_headers) # NoAlias}
        |-> ResolveField(order[f], norm_headers)]

(***************************************************************************)
(* Python dicts as sequences of <<key, value>> pairs in insertion order.   *)
(***************************************************************************)
DictHas(d, k) == \E i \in 1..Len(d) : d[i][1] = k

\* d[k] = v: replaces the value in place, or appends a new key
DictSet(d, k, v) ==
    IF DictHas(d, k)
    THEN [i \in 1..Len(d) |-> IF d[i][1] = k THEN <<k, v>> ELSE d[i]]
    ELSE Append(d, <<k, v>>)

\* d.get(k, default)
DictGet(d, k, default) ==
    IF DictHas(d, k) THEN d[CHOOSE i \in 1..Len(d) : d[i][1] = k][2] ELSE default

(***************************************************************************)
(* csv.DictReader row: dict(zip(fieldnames, row)), the missing columns set *)
(* to restval (None), the surplus cells kept as a list under the key None. *)
(***************************************************************************)
RECURSIVE ZipRow(_, _, _, _)
ZipRow(fieldnames, cells, i, d) ==
    IF i > Len(fieldnames) THEN d
    ELSE ZipRow(fieldnames, cells, i + 1,
                IF i <= Len(cells) THEN DictSet(d, fieldnames[i], cells[i])
                ELSE DictSet(d, fieldnames[i], NoneCell))

\* the named columns of the DictReader row
raw_row(fieldnames, cells) == ZipRow(fieldnames, cells, 1, <<>>)

\* the surplus cells, stored under the key None when there are any
restkey_cells(fieldnames, cells) ==
    IF Len(cells) > Len(fieldnames)
    THEN SubSeq(cells, Len(fieldnames) + 1, Len(cells))
    ELSE <<>>

\* a row loop that also fails on a row shorter than the header (not the code)
RowRaisesOnShort(fieldnames, cells) == Len(cells) # Len(fieldnames)

\* (value or "").strip() raises AttributeError on the list that the key
\* None holds: the only exception the row loop can meet
RowRaises(fieldnames, cells) == Len(cells) > Len(fieldnames)

\* {normalize_header(key): (value or "").strip() for key, value in raw_row.items()}
RECURSIVE NormalizeRow(_, _, _)
NormalizeRow(row, i, d) ==
    IF i > Len(row) THEN d
    ELSE NormalizeRow(row, i + 1,
                      DictSet(d, normalize_header(row[i][1]), Strip(OrEmpty(row[i][2]))))

normalized_row(fieldnames, cells) == NormalizeRow(raw_row(fieldnames, cells), 1, <<>>)

\* field_map.get(field, "")
FieldMapGet(field_map, field) ==
    IF field \in DOMAIN field_map THEN field_map[field] ELSE ""

\* src/ana_budget/csv_handler.py and src/main04.py:
\*   normalized_row.get(field_map.get(field, ""), "")
get_value_direct(row_norm, field_map, field) ==
    DictGet(row_norm, FieldMapGet(field_map, field), "")

\* src/csv_handler.py get_value: row_norm.get(key, "") if key else ""
get_value_guarded(row_norm, field_map, field) ==
    IF field \in DOMAIN field_map /\ field_map[field] # ""
    THEN DictGet(row_norm, field_map[field], "")
    ELSE ""

get_value(v, row_norm, field_map, field) ==
    IF v = "csv_handler" THEN get_value_guarded(row_norm, field_map, field)
    ELSE get_value_direct(row_norm, field_map, field)

(***************************************************************************)
(* Record Builder: the body of the row loop of import_operations_from_csv. *)
(***************************************************************************)
\* src/ana_budget/csv_handler.py 159-160 and src/main04.py 383-384:
\*   _parse_amount(raw) if raw else None
column_amount_unchecked(raw) == IF raw # "" THEN parse_amount(raw) ELSE None

\* src/csv_handler.py 188-195: parse_amount(get_value(..)), then
\*   if val is not None and val < 0: val = abs(val)
column_amount_abs(raw) ==
    LET val == parse_amount(raw) IN IF IsNeg(val) THEN Abs(val) ELSE val

column_amount(v, raw) ==
    IF v = "csv_handler" THEN column_amount_abs(raw) ELSE column_amount_unchecked(raw)

\* a reconciliation that consults the amount whenever debit is absent (not
\* the code)
ReconcileWhenDebitAbsent(debit_val, credit_val, montant_raw) ==
    LET montant_val == parse_amount(montant_raw)
    IN  IF IsNone(debit_val) /\ montant_raw # "" /\ ~IsNone(montant_val)
        THEN IF IsNeg(montant_val) THEN [debit |-> Abs(montant_val), credit |-> None]
             ELSE IF IsPos(montant_val) THEN [debit |-> None, credit |-> montant_val]
             ELSE [debit |-> Zero, credit |-> Zero]
        ELSE [debit |-> debit_val, credit |-> credit_val]

\* a reconciliation with the two signs exchanged (not the code)
ReconcileSwapped(debit_val, credit_val, montant_raw) ==
    LET montant_val == parse_amount(montant_raw)
    IN  IF IsNone(debit_val) /\ IsNone(credit_val) /\ montant_raw # ""
           /\ ~IsNone(montant_val)
        THEN IF IsNeg(montant_val) THEN [debit |-> None, credit |-> Abs(montant_val)]
             ELSE IF IsPos(montant_val) THEN [debit |-> montant_val, credit |-> None]
             ELSE [debit |-> Zero, credit |-> Zero]
        ELSE [debit |-> debit_val, credit |-> credit_val]

\* a reconciliation that fills the other side with 0.0 (not the code)
ReconcileFillZero(debit_val, credit_val, montant_raw) ==
    LET montant_val == parse_amount(montant_raw)
    IN  IF IsNone(debit_val) /\ IsNone(credit_val) /\ montant_raw # ""
           /\ ~IsNone(montant_val)
        THEN IF IsNeg(montant_val) THEN [debit |-> Abs(montant_val), credit |-> Zero]
             ELSE IF IsPos(montant_val) THEN [debit |-> Zero, credit |-> montant_val]
             ELSE [debit |-> Zero, credit |-> Zero]
        ELSE [debit |-> debit_val, credit |-> credit_val]

\* the reconciliation rule: the single amount column is merged into
\* debit/credit when both are absent and the amount cell is not empty
Reconcile(debit_val, credit_val, montant_raw) ==
    LET montant_val == parse_amount(montant_raw)
    IN  IF IsNone(debit_val) /\ IsNone(credit_val) /\ montant_raw # ""
           /\ ~IsNone(montant_val)
        THEN IF IsNeg(montant_val) THEN [debit |-> Abs(montant_val), credit |-> None]
             ELSE IF IsPos(montant_val) THEN [debit |-> None, credit |-> montant_val]
             ELSE [debit |-> Zero, credit |-> Zero]
        ELSE [debit |-> debit_val, credit |-> credit_val]

\* the raw cell of every internal field for one row (date_val, lib_simpl,
\* ..., debit_raw, credit_raw, montant_raw)
RawValues(v, field_map, fieldnames, cells) ==
    LET row_norm == normalized_row(fieldnames, cells)
    IN  [f \in FieldSet |-> get_value(v, row_norm, field_map, f)]

NoRawValues == [f \in FieldSet |-> ""]

\* lib_simpl or lib_op
OrElse(a, b) == IF a # "" THEN a ELSE b

\* OperationBancaire(...) from the raw cells of one row
RecordOf(v, raw) ==
    LET amounts == Reconcile(column_amount(v, raw["debit"]),
                             column_amount(v, raw["credit"]), raw["montant"])
    IN  [date_comptabilisation |-> parse_date(v, raw["date_comptabilisation"]),
         libelle_simplifie |-> OrElse(raw["libelle_simplifie"], raw["libelle_operation"]),
         libelle_operation |-> raw["libelle_operation"],
         reference |-> raw["reference"],
         informations_complementaires |-> raw["informations_complementaires"],
         type_operation |-> raw["type_operation"],
         categorie |-> raw["categorie"],
         sous_categorie |-> raw["sous_categorie"],
         debit |-> amounts.debit,
         credit |-> amounts.credit]

BuildRecord(v, field_map, fieldnames, cells) ==
    RecordOf(v, RawValues(v, field_map, fieldnames, cells))

\* operations.append(record), and a variant that puts it first (not the code)
PrependRecord(ops, rec) == <<rec>> \o ops
AppendRecord(ops, rec) == Append(ops, rec)

\* preview = {key: (value or "") for key, value in raw_row.items()}: the
\* named columns, and the surplus cells held under the key None
Preview(fieldnames, cells) ==
    LET row == raw_row(fieldnames, cells)
    IN  [named |-> [i \in 1..Len(row) |-> <<row[i][1], OrEmpty(row[i][2])>>],
         rest  |-> restkey_cells(fieldnames, cells)]

NoPreview == [named |-> <<>>, rest |-> <<>>]

(***************************************************************************)
(* Dialect Detector.  `sniffed' says whether csv.Sniffer().sniff found a   *)
(* dialect in the sample; the result is "sniffed", "fallback" or "raise".  *)
(***************************************************************************)
\* src/main04.py: the fallback is the class SemiColon, with quoting set
detect_dialect_main04(sniffed) == IF sniffed THEN "sniffed" ELSE "fallback"

\* src/utils.py: the fallback is the instance SemiColon(); the class sets
\* no quoting, so csv.Dialect.__init__ raises csv.Error in the handler
detect_dialect_utils(sniffed) == IF sniffed THEN "sniffed" ELSE "raise"

\* ana_budget/utils.py is not among the sources: the detector of the
\* specification, which never raises
detect_dialect_package(sniffed) == IF sniffed THEN "sniffed" ELSE "fallback"

detect_dialect(v, sniffed) ==
    CASE v = "main04" -> detect_dialect_main04(sniffed)
      [] v = "csv_handler" -> detect_dialect_utils(sniffed)
      [] v = "ana_budget" -> detect_dialect_package(sniffed)

(***************************************************************************)
(* Exporter: to_dict_export and export_operations_to_csv.                  *)
(***************************************************************************)
EXPORT_FIELDNAMES ==
    <<"date_comptabilisation", "libelle_simplifie", "libelle_operation",
      "reference", "informations_complementaires", "type_operation",
      "categorie", "sous_categorie", "debit", "credit">>

\* d["debit"] = f"{d['debit']:.2f}" when not None; the writer prints None as ""
ExportAmount(x) == IF IsNone(x) THEN "" ELSE Format2f(x)

\* the cells DictWriter writes for one operation
to_dict_export(op) ==
    [i \in 1..Len(EXPORT_FIELDNAMES) |->
        IF EXPORT_FIELDNAMES[i] \in {"debit", "credit"}
        THEN ExportAmount(op[EXPORT_FIELDNAMES[i]])
        ELSE op[EXPORT_FIELDNAMES[i]]]

RowLine(cells) == [kind |-> "row", cells |-> cells]
\* a line on which the csv reader itself raises _csv.Error (a field larger
\* than the field size limit)
BadLine == [kind |-> "bad", cells |-> <<>>]

\* the file export_operations_to_csv writes, as the reader reads it back
ExportedFile(ops) ==
    [header |-> EXPORT_FIELDNAMES,
     lines  |-> [i \in 1..Len(ops) |-> RowLine(to_dict_export(ops[i]))],
     sniffed |-> TRUE]

(***************************************************************************)
(* State.  One import of `file' by the importer `variant', followed, when  *)
(* it succeeds, by the export of its records and the import of the         *)
(* exported file (the round trip).                                         *)
(***************************************************************************)
VARIABLES
    variant,     \* which importer runs (one of Variants)
    aliasOrder,  \* this process's iteration order of every alias set
    file,        \* the input file: header names, lines, and whether the
                 \* Sniffer finds its dialect
    pass,        \* 1: the import of the source file, 2: of the exported file
    pc,          \* "start", "rows", "done", "failed", "exported"; in the
                 \* callers also "idle", "main", "exited", "call", "returned"
    field_map,   \* internal field -> normalised header
    pos,         \* index of the next line of the file to read
    idx,         \* enumerate(reader, start=2): number of the row being built
    operations,  \* the list `operations' of the running import
    locals,      \* the raw cells read for the last row (date_val ... montant_raw)
    error,       \* the exception that ended the import, if any
    result,      \* what the import returned to its caller
    first,       \* the records the first import returned
    outfile,     \* the file written by export_operations_to_csv
    ui,          \* the caller: "library", a menu, the GUI, a batch run, "parsers"
    memory,      \* self.operations of the menu or of the GUI
    disk,        \* whether the input path exists, whether the output can be written
    exited,      \* the exit status of the process and what it printed last
    arg,         \* the argument of a direct call of a parser
    ret,         \* what that call did: the function, its value (for parse_amount
                 \* the amount, and in text the separator rules applied),
                 \* whether it raised
    page,        \* the local `page' of the paginated detail view
    agregation   \* the dict an aggregation returned, in insertion order

\* the variables of the callers of the importer and of the parsers
callerVars == <<ui, memory, disk, exited, arg, ret, page, agregation>>

vars == <<variant, aliasOrder, file, pass, pc, field_map, pos, idx,
          operations, locals, error, result, first, outfile,
          ui, memory, disk, exited, arg, ret, page, agregation>>

\* bounds of the model
MaxLines == 2
MaxHeaders == 3
MaxText == 4

\* enumerate(reader, start=2): the header is row 1
EnumerateStart == 2

\* the index enumerate(reader, start) gives to the k-th row it yields
enumerate_index(start, k) == start + k - 1

EmptyMap == [f \in {} |-> ""]
NoError == [kind |-> "none", row |-> 0, preview |-> NoPreview]
NoResult == [returned |-> FALSE, value |-> <<>>]
NoFile == [header |-> <<>>, lines |-> <<>>, sniffed |-> TRUE]
NoDisk == [input_exists |-> TRUE, output_writable |-> TRUE]
NoExit == [code |-> -1, printed |-> "none"]
NoRet == [fn |-> "none", variant |-> "none", text |-> "", amount |-> None, raised |-> FALSE]
NoTotals == [debit |-> DoubleZero, credit |-> DoubleZero, solde |-> DoubleZero]

\* what the aggregations last gave: the rows of the window's two tables
\* and its totals, or the table of the menu and its line of totals
NoAgregation ==
    [categories |-> <<>>, sous_categories |-> <<>>, completes |-> <<>>,
     totaux |-> NoTotals]

\* the caller variables when the importer is used as a library
NoCaller ==
    /\ ui = "library"
    /\ memory = <<>>
    /\ disk = NoDisk
    /\ exited = NoExit
    /\ arg = ""
    /\ ret = NoRet
    /\ page = 0
    /\ agregation = NoAgregation

(***************************************************************************)
(* The input files of the model: a header and, for each column, the cell   *)
(* texts its rows draw from.  Besides the full rows a file may hold blank  *)
(* lines, rows shorter and longer than the header, and a line the reader   *)
(* cannot read.  One file holds amounts too large for a double.            *)
(***************************************************************************)
FileShapes ==
    { [header |-> <<"Date", "Libellé", "Montant">>,
       cols   |-> <<{"05/03/2024"}, {"Loyer"},
                    {"-50,00", "50,00", "0", "(10,00)", "1,237", "abc"}>>],
      [header |-> <<"Date", "Débit", "Crédit">>,
       cols   |-> <<{"2024-03-05 10:22"}, {"", "-5", "(3,50)"}, {"", "12,30"}>>],
      [header |-> <<"Date Valeur", "", "Montant">>,
       cols   |-> <<{"not a date"}, {"x"}, {"-800", ""}>>],
      [header |-> <<"Date", "Date Valeur", "Montant">>,
       cols   |-> <<{"01/01/2024"}, {"02/01/2024"}, {"2500,00"}>>],
      [header |-> <<"Débit", "Crédit", "Montant">>,
       cols   |-> <<{"", "abc"}, {"", "7"}, {"-0,071"}>>],
      [header |-> <<"Montant", "Montant²">>,
       cols   |-> <<{"1"}, {"2"}>>],
      [header |-> <<"Montant">>,
       cols   |-> <<{FloatOverflow, "-" \o FloatOverflow}>>],
      [header |-> <<>>, cols |-> <<>>] }

FullRows(shape) ==
    {r \in [1..Len(shape.cols) -> UNION Range(shape.cols)] :
        \A i \in 1..Len(shape.cols) : r[i] \in shape.cols[i]}

LineUniverse(shape) ==
    IF shape.header = <<>> THEN {}
    ELSE {RowLine(r) : r \in FullRows(shape)}
         \cup {RowLine(<<>>)}                                   \* a blank line
         \cup {RowLine(<<c>>) : c \in shape.cols[1]}            \* a short row
         \cup {RowLine([i \in 1..(Len(shape.header) + 1) |-> "extra"])}  \* a long row
         \cup {BadLine}

LineSeqs(shape) == UNION {[1..n -> LineUniverse(shape)] : n \in 0..MaxLines}

NormHeaders(header) == [i \in 1..Len(header) |-> normalize_header(header[i])]

IsBlank(line) == line.kind = "row" /\ Len(line.cells) = 0

\* csv.DictReader.__next__ skips the rows that are []: the position of the
\* first line from pos on that is not blank (Len(lines) + 1 at the end)
RECURSIVE SkipBlank(_, _)
SkipBlank(lines, p) ==
    IF p <= Len(lines) /\ IsBlank(lines[p]) THEN SkipBlank(lines, p + 1) ELSE p

\* the rows the reader yields: the lines that are not blank
NotBlank(line) == ~IsBlank(line)
DataRows(lines) == SelectSeq(lines, NotBlank)

Init ==
    /\ variant \in Variants
    /\ \E shape \in FileShapes :
         \E ls \in LineSeqs(shape), sn \in BOOLEAN :
            file = [header |-> shape.header, lines |-> ls, sniffed |-> sn]
    /\ aliasOrder \in IterationOrders(Range(NormHeaders(file.header)))
    /\ pass = 1
    /\ pc = "start"
    /\ field_map = EmptyMap
    /\ pos = 1
    /\ idx = enumerate_index(EnumerateStart, 1)
    /\ operations = <<>>
    /\ locals = NoRawValues
    /\ error = NoError
    /\ result = NoResult
    /\ first = <<>>
    /\ outfile = NoFile
    /\ NoCaller

Fail(kind, row, preview) ==
    /\ pc' = "failed"
    /\ error' = [kind |-> kind, row |-> row, preview |-> preview]

\* detect_dialect raises (the fallback cannot be built): the import ends
\* with that csv.Error
OpenDialectError ==
    /\ pc = "start"
    /\ detect_dialect(variant, file.sniffed) = "raise"
    /\ Fail("csv.Error", 0, NoPreview)
    /\ UNCHANGED callerVars
    /\ UNCHANGED <<variant, aliasOrder, file, pass, field_map, pos, idx,
                   operations, locals, result, first, outfile>>

\* if not reader.fieldnames: raise ValueError("Aucune colonne détectée ...")
OpenNoColumns ==
    /\ pc = "start"
    /\ detect_dialect(variant, file.sniffed) # "raise"
    /\ Len(file.header) = 0
    /\ Fail("ValueError", 0, NoPreview)
    /\ UNCHANGED callerVars
    /\ UNCHANGED <<variant, aliasOrder, file, pass, field_map, pos, idx,
                   operations, locals, result, first, outfile>>

\* the header is read, normalised and resolved; the row loop starts
OpenOk ==
    /\ pc = "start"
    /\ detect_dialect(variant, file.sniffed) # "raise"
    /\ Len(file.header) > 0
    /\ field_map' = map_headers_to_fields(NormHeaders(file.header), aliasOrder)
    /\ pc' = "rows"
    /\ pos' = 1
    /\ idx' = enumerate_index(EnumerateStart, 1)
    /\ operations' = <<>>
    /\ UNCHANGED callerVars
    /\ UNCHANGED <<variant, aliasOrder, file, pass, locals, error, result,
                   first, outfile>>

\* the reader raises while producing the next row: the for statement is
\* outside the try block, so the csv.Error leaves the import as it is
ReaderError ==
    /\ pc = "rows"
    /\ SkipBlank(file.lines, pos) <= Len(file.lines)
    /\ file.lines[SkipBlank(file.lines, pos)].kind = "bad"
    /\ Fail("csv.Error", 0, NoPreview)
    /\ pos' = SkipBlank(file.lines, pos) + 1
    /\ UNCHANGED callerVars
    /\ UNCHANGED <<variant, aliasOrder, file, pass, field_map, idx,
                   operations, locals, result, first, outfile>>

\* building the record raises: except Exception -> RuntimeError with the
\* row number and the preview
RowError ==
    /\ pc = "rows"
    /\ SkipBlank(file.lines, pos) <= Len(file.lines)
    /\ LET line == file.lines[SkipBlank(file.lines, pos)]
       IN  /\ line.kind = "row"
           /\ RowRaises(file.header, line.cells)
           /\ Fail("RuntimeError", idx, Preview(file.header, line.cells))
    /\ pos' = SkipBlank(file.lines, pos) + 1
    /\ UNCHANGED callerVars
    /\ UNCHANGED <<variant, aliasOrder, file, pass, field_map, idx,
                   operations, locals, result, first, outfile>>

\* one iteration of the row loop that appends a record
RowOk ==
    /\ pc = "rows"
    /\ SkipBlank(file.lines, pos) <= Len(file.lines)
    /\ LET line == file.lines[SkipBlank(file.lines, pos)]
       IN  /\ line.kind = "row"
           /\ ~RowRaises(file.header, line.cells)
           /\ locals' = RawValues(variant, field_map, file.header, line.cells)
           /\ operations' = AppendRecord(operations, RecordOf(variant, locals'))
    /\ pos' = SkipBlank(file.lines, pos) + 1
    /\ idx' = enumerate_index(EnumerateStart, Len(operations') + 1)
    /\ UNCHANGED callerVars
    /\ UNCHANGED <<variant, aliasOrder, file, pass, pc, field_map, error,
                   result, first, outfile>>

\* the reader is exhausted: return operations
Return ==
    /\ pc = "rows"
    /\ SkipBlank(file.lines, pos) > Len(file.lines)
    /\ pc' = "done"
    /\ pos' = SkipBlank(file.lines, pos)
    /\ result' = [returned |-> TRUE, value |-> operations]
    /\ UNCHANGED callerVars
    /\ UNCHANGED <<variant, aliasOrder, file, pass, field_map, idx,
                   operations, locals, error, first, outfile>>

\* export_operations_to_csv(result, g)
Export ==
    /\ pc = "done"
    /\ pass = 1
    /\ outfile' = ExportedFile(result.value)
    /\ first' = result.value
    /\ pc' = "exported"
    /\ UNCHANGED callerVars
    /\ UNCHANGED <<variant, aliasOrder, file, pass, field_map, pos, idx,
                   operations, locals, error, result>>

\* import_operations_from_csv(g): a new call, on the exported file
Reimport ==
    /\ pc = "exported"
    /\ file' = outfile
    /\ pass' = 2
    /\ pc' = "start"
    /\ field_map' = EmptyMap
    /\ pos' = 1
    /\ idx' = enumerate_index(EnumerateStart, 1)
    /\ operations' = <<>>
    /\ locals' = NoRawValues
    /\ error' = NoError
    /\ result' = NoResult
    /\ UNCHANGED callerVars
    /\ UNCHANGED <<variant, aliasOrder, first, outfile>>

Next ==
    \/ OpenDialectError
    \/ OpenNoColumns
    \/ OpenOk
    \/ ReaderError
    \/ RowError
    \/ RowOk
    \/ Return
    \/ Export
    \/ Reimport

Spec == Init /\ [][Next]_vars

(***************************************************************************)
(* The resolver alone: map_headers_to_fields applied, in one process, to   *)
(* every list of at most MaxHeaders normalised headers drawn from          *)
(* ResolveHeaderPool (aliases of two fields, and a name that is no alias). *)
(***************************************************************************)
ResolveHeaderPool == {"date", "date_valeur", "montant", "amount", "solde"}

HeaderLists == UNION {[1..n -> ResolveHeaderPool] : n \in 0..MaxHeaders}

\* map_headers_to_fields and HEADER_ALIASES are the same text in the three
\* importers: the one of src/main04.py is run
InitResolve ==
    /\ variant = "main04"
    /\ \E hs \in HeaderLists : file = [header |-> hs, lines |-> <<>>, sniffed |-> TRUE]
    /\ aliasOrder \in IterationOrders(Range(NormHeaders(file.header)))
    /\ pass = 1
    /\ pc = "resolve"
    /\ field_map = EmptyMap
    /\ pos = 1
    /\ idx = enumerate_index(EnumerateStart, 1)
    /\ operations = <<>>
    /\ locals = NoRawValues
    /\ error = NoError
    /\ result = NoResult
    /\ first = <<>>
    /\ outfile = NoFile
    /\ NoCaller

\* field_map = map_headers_to_fields(norm_headers)
Resolve ==
    /\ pc = "resolve"
    /\ field_map' = map_headers_to_fields(NormHeaders(file.header), aliasOrder)
    /\ pc' = "resolved"
    /\ UNCHANGED callerVars
    /\ UNCHANGED <<variant, aliasOrder, file, pass, pos, idx, operations,
                   locals, error, result, first, outfile>>

NextResolve == Resolve

SpecResolve == InitResolve /\ [][NextResolve]_vars

(***************************************************************************)
(* The parsers alone: one direct call of parse_amount, parse_date or       *)
(* normalize_header on an argument drawn from the texts below.             *)
(***************************************************************************)
\* every text of length n over an alphabet
RECURSIVE TextsOfLen(_, _)
TextsOfLen(alphabet, n) ==
    IF n = 0 THEN {""}
    ELSE {t \o c : t \in TextsOfLen(alphabet, n - 1), c \in alphabet}

TextsUpTo(alphabet, n) == UNION {TextsOfLen(alphabet, k) : k \in 0..n}

\* the arguments of parse_amount: None, every short text over the amount
\* characters, some longer amounts with spaces, letters and zeros, and
\* amounts too large for a double
AmountTexts ==
    TextsUpTo({"1", "5", ",", ".", "-", "+", "(", ")"}, MaxText)
    \cup {NoneCell, "   ", " 5 ", "1 234,56", "1.234,56", "1,234.56", "(1.234,56)",
          "1,234,567", "abc", "12,5 EUR", "-0", "(0)", "0,00", "( -5 )", "-(5)"}
    \cup {FloatOverflow, "-" \o FloatOverflow, "(" \o FloatOverflow \o ")",
          "(-" \o FloatOverflow \o ")", "00" \o FloatOverflow \o ",50",
          "1." \o FloatOverflow \o ",5", FloatOverflow \o ".5.5"}

\* the arguments of parse_date: None, blank texts, texts that are no date,
\* ISO week dates, and day/month/year texts in both orders with surrounding
\* spaces and a time of day
DateTexts ==
    LET days     == {"5", "05", "31", "32"}
        months   == {"3", "02", "13", "mar", "March"}
        years    == {"2024", "24"}
        prefixes == {"", " "}
        suffixes == {"", " ", " 10:22", "T10:22:00"}
    IN  {NoneCell, "", "   ", "abc", " abc", "foo bar", "20240305", "2024-02-30",
         "2024-W10-2", "2024W102", "2024-02-05x10:22", "2024-02-05 24:00"}
        \cup {p \o d \o sep \o m \o sep \o y \o x :
                p \in prefixes, d \in days, sep \in {"/", "-", ".", " "},
                m \in months, y \in years, x \in suffixes}
        \cup {p \o y \o sep \o m \o sep \o d \o x :
                p \in prefixes, d \in days, sep \in {"/", "-"},
                m \in months, y \in years, x \in suffixes}

\* the arguments of normalize_header
HeaderTexts ==
    TextsUpTo({"A", "b", "é", " ", "_", "-", "²"}, MaxText)
    \cup {NoneCell, "Date de l'opération", "Montant (EUR)", "__Débit__", " Libellé  simplifié ",
          "Montant²", "ÉTÉ"}

InitParsers ==
    /\ arg \in AmountTexts \cup DateTexts \cup HeaderTexts
    /\ ui = "parsers"
    /\ ret = NoRet
    /\ page = 0
    /\ agregation = NoAgregation
    /\ pc = "call"
    /\ variant = "main04"
    /\ aliasOrder = DeclarationOrder
    /\ file = NoFile
    /\ pass = 1
    /\ field_map = EmptyMap
    /\ pos = 1
    /\ idx = enumerate_index(EnumerateStart, 1)
    /\ operations = <<>>
    /\ locals = NoRawValues
    /\ error = NoError
    /\ result = NoResult
    /\ first = <<>>
    /\ outfile = NoFile
    /\ memory = <<>>
    /\ disk = NoDisk
    /\ exited = NoExit

ParserFrame ==
    UNCHANGED <<aliasOrder, file, pass, field_map, pos, idx, operations, locals,
                error, result, first, outfile, ui, memory, disk, exited, arg,
                page, agregation>>

\* parse_amount(arg)
CallParseAmount ==
    /\ pc = "call"
    /\ arg \in AmountTexts
    /\ LET out == parse_amount_call(arg)
       IN  ret' = [fn |-> "parse_amount", variant |-> variant,
                   text |-> RewritesApplied(arg),
                   amount |-> out.value, raised |-> out.raised]
    /\ pc' = "returned"
    /\ UNCHANGED variant
    /\ ParserFrame

\* parse_date(arg), in any of the three importers
CallParseDate ==
    /\ pc = "call"
    /\ arg \in DateTexts
    /\ variant' \in Variants
    /\ ret' = [fn |-> "parse_date", variant |-> variant',
               text |-> parse_date(variant', arg), amount |-> None, raised |-> FALSE]
    /\ pc' = "returned"
    /\ ParserFrame

\* normalize_header(arg)
CallNormalizeHeader ==
    /\ pc = "call"
    /\ arg \in HeaderTexts
    /\ ret' = [fn |-> "normalize_header", variant |-> variant,
               text |-> normalize_header(arg), amount |-> None, raised |-> FALSE]
    /\ pc' = "returned"
    /\ UNCHANGED variant
    /\ ParserFrame

NextParsers ==
    \/ CallParseAmount
    \/ CallParseDate
    \/ CallNormalizeHeader

SpecParsers == InitParsers /\ [][NextParsers]_vars

(***************************************************************************)
(* What the callers do with the operations in memory: the aggregations     *)
(* (agreger_par_categorie, agreger_par_sous_categorie, and the table of    *)
(* afficher_agregations_completes), MenuImport.vider_operations and the    *)
(* paginated detail view of MenuImport.afficher_operations.                *)
(***************************************************************************)
\* per_page = 8
per_page == 8

\* bounds: the number of rows of the long file of a session, and the
\* longest sequence of operations given to an aggregation called alone
MaxRecords == 17
MaxGrouped == 3

MenuUIs == {"menu_main04", "menu_main_fixed"}

\* what the user types at the confirmation of vider_operations and at the
\* navigation prompt of the detail view
ClearAnswers == {"oui", "o", "yes", "y", " OUI ", "Y", "non", "", "x"}

NavAnswers == {"s", " S ", "p", "q", "0", "1", "2", "3", "4", "02", "x", "", "²"}

\* an OperationBancaire
MenuOperation(categorie, sous_categorie, debit, credit) ==
    [date_comptabilisation |-> "2024-03-05",
     libelle_simplifie |-> "",
     libelle_operation |-> "",
     reference |-> "",
     informations_complementaires |-> "",
     type_operation |-> "",
     categorie |-> categorie,
     sous_categorie |-> sous_categorie,
     debit |-> debit,
     credit |-> credit]

MenuOperations ==
    {MenuOperation("Courses", "Bio", Float(FALSE, 1, 1), None),
     MenuOperation("Courses", "", None, Float(FALSE, 3, 1)),
     MenuOperation("", "Bio", Float(FALSE, 2, 1), None),
     MenuOperation("", "", None, None),
     MenuOperation("Loisirs", "Bio", Float(TRUE, 5, 0), Float(FALSE, 25, 2)),
     MenuOperation("Non catégorisé", "Non spécifié", Float(FALSE, 1, 1), None),
     MenuOperation("Épargne", "Livret", None, Float(FALSE, 1, 1)),
     MenuOperation("Épargne", "Livret", Float(FALSE, 0, 0), Float(FALSE, 2, 1))}

\* the arguments of an aggregation called alone: every sequence of at most
\* MaxGrouped of these operations
MenuMemories == UNION {[1..n -> MenuOperations] : n \in 0..MaxGrouped}

\* lambda: {'total_debit': 0.0, 'total_credit': 0.0, 'nombre': 0}
NewEntry == [total_debit |-> DoubleZero, total_credit |-> DoubleZero, nombre |-> 0]

\* `if op.debit:' on an Optional[float]: neither None nor 0.0
Truthy(x) == x.some /\ (x.inf \/ x.mag # 0)

\* the body of the loop with nombre counting only the operations that
\* have an amount
AddOperationWithAmount(entry, op) ==
    [total_debit |-> IF Truthy(op.debit) THEN FloatAdd(entry.total_debit, ToDouble(op.debit))
                     ELSE entry.total_debit,
     total_credit |-> IF Truthy(op.credit) THEN FloatAdd(entry.total_credit, ToDouble(op.credit))
                      ELSE entry.total_credit,
     nombre |-> IF Truthy(op.debit) \/ Truthy(op.credit) THEN entry.nombre + 1
                ELSE entry.nombre]

\* if op.debit: entry['total_debit'] += op.debit
\* if op.credit: entry['total_credit'] += op.credit
\* entry['nombre'] += 1
AddOperation(entry, op) ==
    [total_debit |-> IF Truthy(op.debit) THEN FloatAdd(entry.total_debit, ToDouble(op.debit))
                     ELSE entry.total_debit,
     total_credit |-> IF Truthy(op.credit) THEN FloatAdd(entry.total_credit, ToDouble(op.credit))
                      ELSE entry.total_credit,
     nombre |-> entry.nombre + 1]

\* the loop of agreger_par_categorie and agreger_par_sous_categorie on the
\* attribute `champ' with the label `defaut' (op.categorie or "Non
\* catégorisé"); the dict is the sequence of its items in insertion order
RECURSIVE agreger(_, _, _)
agreger(ops, champ, defaut) ==
    IF Len(ops) = 0 THEN <<>>
    ELSE LET d == agreger(SubSeq(ops, 1, Len(ops) - 1), champ, defaut)
             op == ops[Len(ops)]
             key == OrElse(op[champ], defaut)
         IN  DictSet(d, key, AddOperation(DictGet(d, key, NewEntry), op))

agreger_par_categorie(ops) == agreger(ops, "categorie", "Non catégorisé")

agreger_par_sous_categorie(ops) == agreger(ops, "sous_categorie", "Non spécifié")

\* sum(doubles), one addition after the other in list order
RECURSIVE SumDoubles(_)
SumDoubles(doubles) ==
    IF Len(doubles) = 0 THEN DoubleZero
    ELSE FloatAdd(SumDoubles(SubSeq(doubles, 1, Len(doubles) - 1)),
                  doubles[Len(doubles)])

\* sum(op.debit or 0.0 for op in ops_list) on the amounts in list order
SumOrZero(amounts) ==
    SumDoubles([i \in 1..Len(amounts) |->
                   IF Truthy(amounts[i]) THEN ToDouble(amounts[i]) ELSE DoubleZero])

\* calculer_agregation(ops_list) of afficher_agregations_completes
calculer_agregation(ops_list) ==
    LET total_debit  == SumOrZero([i \in 1..Len(ops_list) |-> ops_list[i].debit])
        total_credit == SumOrZero([i \in 1..Len(ops_list) |-> ops_list[i].credit])
    IN  [total_debit |-> total_debit,
         total_credit |-> total_credit,
         solde |-> FloatSub(total_credit, total_debit),
         nombre |-> Len(ops_list)]

\* the keys of the operations in the order of their first use (the keys of
\* a defaultdict filled in list order)
RECURSIVE KeysInOrder(_, _, _)
KeysInOrder(ops, champ, defaut) ==
    IF Len(ops) = 0 THEN <<>>
    ELSE LET before == KeysInOrder(SubSeq(ops, 1, Len(ops) - 1), champ, defaut)
             key    == OrElse(ops[Len(ops)][champ], defaut)
         IN  IF key \in Range(before) THEN before ELSE Append(before, key)

\* list.sort on the keys of fewer than 64 rows, as CPython sorts them: the
\* run the list starts with is found (count_run), reversed when it is
\* strictly descending, and every later row is put in its place by a
\* binary search (binarysort).  It is the stable sort on keys that are
\* ordered; with a nan among the keys, which is less than nothing, the
\* result is what these comparisons give.  `order' lists row indices.
Reversed(s) == [i \in 1..Len(s) |-> s[Len(s) + 1 - i]]

\* the last position of the run that goes on at position i
RECURSIVE RunEnd(_, _, _, _)
RunEnd(keys, order, i, descending) ==
    IF i > Len(order) THEN Len(order)
    ELSE IF FloatLess(keys[order[i]], keys[order[i - 1]]) = descending
    THEN RunEnd(keys, order, i + 1, descending)
    ELSE i - 1

\* where the binary search between l and r puts the key `pivot'
RECURSIVE BinaryPlace(_, _, _, _, _)
BinaryPlace(keys, order, pivot, l, r) ==
    IF l >= r THEN l
    ELSE IF FloatLess(pivot, keys[order[l + (r - l) \div 2]])
    THEN BinaryPlace(keys, order, pivot, l, l + (r - l) \div 2)
    ELSE BinaryPlace(keys, order, pivot, l + (r - l) \div 2 + 1, r)

\* the row at position `start' moved to position `at', the rows between
\* them moved one place to the right
Moved(order, start, at) ==
    [i \in 1..Len(order) |->
        IF i < at \/ i > start THEN order[i]
        ELSE IF i = at THEN order[start]
        ELSE order[i - 1]]

RECURSIVE BinarySort(_, _, _)
BinarySort(keys, order, start) ==
    IF start > Len(order) THEN order
    ELSE BinarySort(keys,
                    Moved(order, start,
                          BinaryPlace(keys, order, keys[order[start]], 1, start)),
                    start + 1)

\* the first `run' rows in reverse order
RunReversed(order, run) ==
    [i \in 1..Len(order) |-> IF i <= run THEN order[run + 1 - i] ELSE order[i]]

SortedFromRun(keys, order, descending, run) ==
    BinarySort(keys, IF descending THEN RunReversed(order, run) ELSE order, run + 1)

ListSort(keys, order) ==
    IF Len(order) < 2 THEN order
    ELSE SortedFromRun(keys, order, FloatLess(keys[order[2]], keys[order[1]]),
                       RunEnd(keys, order, 3,
                              FloatLess(keys[order[2]], keys[order[1]])))

\* sorted(..., key=..., reverse=True) on the keys of the rows: the list is
\* reversed, sorted and reversed again, which gives the indices of the
\* rows by decreasing key, rows of equal key in the order they had
SortOrder(keys) ==
    Reversed(ListSort(keys, Reversed([i \in 1..Len(keys) |-> i])))

\* rows.sort(key=lambda x: x[1]['solde'], reverse=True)
SortBySolde(rows) ==
    LET order == SortOrder([i \in 1..Len(rows) |-> rows[i][2].solde])
    IN  [i \in 1..Len(rows) |-> rows[order[i]]]

\* the table afficher_agregations_completes prints: a row for each
\* category, by decreasing solde, each with the rows of its sub-categories,
\* by decreasing solde (the amounts as numbers, before they are formatted)
afficher_agregations_completes(ops) ==
    LET categorie_of(op) == OrElse(op.categorie, "Non catégorisé")
        sous_of(op)      == OrElse(op.sous_categorie, "Non spécifié")
        row(c) ==
            LET of_c == SelectSeq(ops, LAMBDA op : categorie_of(op) = c)
                sous == KeysInOrder(of_c, "sous_categorie", "Non spécifié")
            IN  <<c, calculer_agregation(of_c),
                  SortBySolde([j \in 1..Len(sous) |->
                      <<sous[j],
                        calculer_agregation(
                            SelectSeq(of_c, LAMBDA op : sous_of(op) = sous[j]))>>])>>
        cats == KeysInOrder(ops, "categorie", "Non catégorisé")
    IN  SortBySolde([i \in 1..Len(cats) |-> row(cats[i])])

\* the line TOTAL GÉNÉRAL under the table: the totals of the categories
\* added in the order of the rows, and their difference
total_general(rows) ==
    LET debit  == SumDoubles([i \in 1..Len(rows) |-> rows[i][2].total_debit])
        credit == SumDoubles([i \in 1..Len(rows) |-> rows[i][2].total_credit])
    IN  [debit |-> debit, credit |-> credit, solde |-> FloatSub(credit, debit)]

\* BudgetApp._fill_aggregation_tree: the items of the dict sorted by
\* total_credit - total_debit, decreasing
fill_aggregation_tree(data) ==
    LET order == SortOrder([i \in 1..Len(data) |->
                     FloatSub(data[i][2].total_credit, data[i][2].total_debit)])
    IN  [i \in 1..Len(data) |-> data[order[i]]]

\* BudgetApp._update_totals: the sums of the debits and of the credits in
\* memory and their difference
update_totals(ops) ==
    LET debit  == SumOrZero([i \in 1..Len(ops) |-> ops[i].debit])
        credit == SumOrZero([i \in 1..Len(ops) |-> ops[i].credit])
    IN  [debit |-> debit, credit |-> credit, solde |-> FloatSub(credit, debit)]

\* BudgetApp._refresh_aggregations then _update_totals, as open_csv calls
\* them: each dict fills its table
refresh_aggregations(ops) ==
    [categories |-> fill_aggregation_tree(agreger_par_categorie(ops)),
     sous_categories |-> fill_aggregation_tree(agreger_par_sous_categorie(ops)),
     completes |-> <<>>,
     totaux |-> update_totals(ops)]

\* vider_operations accepting every answer that is not empty
vider_operations_any_answer(ops, confirmation_raw) ==
    IF Len(ops) = 0 THEN ops
    ELSE IF Lower(Strip(confirmation_raw)) # "" THEN <<>>
    ELSE ops

\* if not self.operations: return
\* confirmation = input(...).strip().lower()
\* if confirmation in {"oui", "o", "yes", "y"}: self.operations.clear()
vider_operations(ops, confirmation_raw) ==
    IF Len(ops) = 0 THEN ops
    ELSE IF Lower(Strip(confirmation_raw)) \in {"oui", "o", "yes", "y"} THEN <<>>
    ELSE ops

\* start = page * per_page; end = min(start + per_page, n)
PageStart(p) == p * per_page

PageEnd(n, p) == IF PageStart(p) + per_page < n THEN PageStart(p) + per_page ELSE n

\* if end >= n and start == 0: break
SinglePage(n, p) == PageEnd(n, p) >= n /\ PageStart(p) = 0

\* str.isdigit() on the characters a user of the model types: the ASCII
\* digits and the superscript two, a digit for isdigit() that int() refuses
IsDigitText(s) ==
    Len(s) > 0 /\ \A i \in 1..Len(s) : Char(s, i) \in DigitChars \cup {"²"}

\* one turn of the loop that moves forward without testing end < n
NavigateUnbounded(n, p, nav_raw) ==
    LET nav == Lower(Strip(nav_raw))
        stay == [page |-> p, quit |-> FALSE, raised |-> FALSE]
    IN  IF nav = "s" THEN [stay EXCEPT !.page = p + 1]
        ELSE IF nav = "p" /\ p > 0 THEN [stay EXCEPT !.page = p - 1]
        ELSE IF nav = "q" THEN [stay EXCEPT !.quit = TRUE]
        ELSE IF IsDigitText(nav)
             THEN IF ~IsDigits(nav) THEN [stay EXCEPT !.raised = TRUE]
                  ELSE LET newp == ToInt(nav) - 1
                       IN  IF 0 <= newp /\ newp <= (n - 1) \div per_page
                           THEN [stay EXCEPT !.page = newp]
                           ELSE stay
        ELSE stay

\* one turn of the loop of the paginated view after the page is printed:
\* nav = input(...).strip().lower(), then s, p, q or a page number; int(nav)
\* raises ValueError on a digit that is not a decimal digit
Navigate(n, p, nav_raw) ==
    LET nav == Lower(Strip(nav_raw))
        stay == [page |-> p, quit |-> FALSE, raised |-> FALSE]
    IN  IF nav = "s" /\ PageEnd(n, p) < n THEN [stay EXCEPT !.page = p + 1]
        ELSE IF nav = "p" /\ p > 0 THEN [stay EXCEPT !.page = p - 1]
        ELSE IF nav = "q" THEN [stay EXCEPT !.quit = TRUE]
        ELSE IF IsDigitText(nav)
             THEN IF ~IsDigits(nav) THEN [stay EXCEPT !.raised = TRUE]
                  ELSE LET newp == ToInt(nav) - 1
                       IN  IF 0 <= newp /\ newp <= (n - 1) \div per_page
                           THEN [stay EXCEPT !.page = newp]
                           ELSE stay
        ELSE stay

\* the handler or the function that ran last
Called(fn) == [NoRet EXCEPT !.fn = fn]

(***************************************************************************)
(* The interactive sessions: the menu of src/main04.py and of              *)
(* src/main_fixed.py (MenuImport.executer and the handlers of its choices) *)
(* and the window of src/main_gui.py (BudgetApp.open_csv and export_csv).  *)
(* memory is self.operations, empty when the program starts and filled by  *)
(* the imports only.  From the idle loop the user starts an import on a    *)
(* file drawn from SessionFiles, which runs as the importer's actions      *)
(* above and whose outcome comes back to the handler, or exports, clears,  *)
(* pages through the detail view, asks for the aggregations, or quits.     *)
(* pass counts the imports of the session.  The choices that only print    *)
(* (the list of the files, the overview and the full list of the           *)
(* operations, an invalid choice, the search field of the window) change   *)
(* nothing of the state and are stuttering steps.                          *)
(***************************************************************************)
MaxImports == 2

SessionUIs == {"menu_main04", "menu_main_fixed", "gui"}

\* the importer each program imports
VariantOf(u) ==
    CASE u \in {"menu_main04", "batch_main04"} -> "main04"
      [] u \in {"menu_main_fixed", "batch_main_fixed"} -> "csv_handler"
      [] u = "gui" -> "ana_budget"

SessionHeader == <<"Date", "Montant", "Catégorie">>

\* two rows that import, a row longer than the header (a row error)
SessionRow1 == RowLine(<<"05/03/2024", "0,10", "Courses">>)

SessionRow2 == RowLine(<<"06/03/2024", "-0,20", "">>)

SessionLongRow == RowLine(<<"07/03/2024", "1", "Loisirs", "extra">>)

\* the files of a session: the header alone, one row, a file of per_page
\* rows (one full page of the detail view), a file of MaxRecords rows
\* (more than two pages), a row followed by a row error, a row followed
\* by a line the reader cannot read, a file without a header (its dialect
\* found or not), and a file of one column, in which the sniffer finds no
\* delimiter
SessionFiles ==
    {[header |-> SessionHeader, lines |-> <<>>, sniffed |-> TRUE],
     [header |-> SessionHeader, lines |-> <<SessionRow1>>, sniffed |-> TRUE],
     [header |-> SessionHeader,
      lines |-> [i \in 1..per_page |-> IF i % 2 = 1 THEN SessionRow1 ELSE SessionRow2],
      sniffed |-> TRUE],
     [header |-> SessionHeader,
      lines |-> [i \in 1..MaxRecords |-> IF i % 2 = 1 THEN SessionRow1 ELSE SessionRow2],
      sniffed |-> TRUE],
     [header |-> SessionHeader, lines |-> <<SessionRow1, SessionLongRow>>, sniffed |-> TRUE],
     [header |-> SessionHeader, lines |-> <<SessionRow2, BadLine>>, sniffed |-> TRUE],
     [header |-> <<>>, lines |-> <<>>, sniffed |-> TRUE],
     [header |-> <<>>, lines |-> <<>>, sniffed |-> FALSE],
     [header |-> <<"Date">>, lines |-> <<RowLine(<<"06/03/2024">>)>>, sniffed |-> FALSE]}

\* what the call import_operations_from_csv(path) gave its caller
Raised == [raised |-> TRUE, value |-> <<>>]
Returned(ops) == [raised |-> FALSE, value |-> ops]

\* importer_fichier after the call: except Exception -> print, return;
\* if nouvelles: self.operations.extend(nouvelles)
importer_fichier(ops, outcome) ==
    IF outcome.raised THEN ops
    ELSE IF outcome.value # <<>> THEN ops \o outcome.value
    ELSE ops

\* a handler that empties the list before it calls the importer (not the code)
open_csv_cleared(ops, outcome) ==
    IF outcome.raised THEN <<>> ELSE outcome.value

\* open_csv: self.operations = import_operations_from_csv(path) inside the
\* try; every except branch shows the error and returns
open_csv(ops, outcome) ==
    IF outcome.raised THEN ops ELSE outcome.value

\* the handler of the running program
Handler(u, ops, outcome) ==
    IF u = "gui" THEN open_csv(ops, outcome) ELSE importer_fichier(ops, outcome)

\* the name of the import handler and of the export handler of a program
ImportHandler(u) == IF u = "gui" THEN "open_csv" ELSE "importer_fichier"

ExportHandler(u) == IF u = "gui" THEN "export_csv" ELSE "exporter_operations"

\* what is on the screen after the import handler returned: the window
\* refreshes its two aggregation tables and its totals when the import
\* returned (_refresh_aggregations, _update_totals) and returns before
\* that when it raised; the menus print nothing of the aggregations
AfterImport(u, shown, ops, outcome) ==
    IF u = "gui" /\ ~outcome.raised THEN refresh_aggregations(ops) ELSE shown

InitSession ==
    /\ ui \in SessionUIs
    /\ variant = VariantOf(ui)
    /\ memory = <<>>
    /\ pc = "idle"
    /\ pass = 1
    /\ aliasOrder \in IterationOrders(Range(NormHeaders(SessionHeader)))
    /\ file = NoFile
    /\ field_map = EmptyMap
    /\ pos = 1
    /\ idx = enumerate_index(EnumerateStart, 1)
    /\ operations = <<>>
    /\ locals = NoRawValues
    /\ error = NoError
    /\ result = NoResult
    /\ first = <<>>
    /\ outfile = NoFile
    /\ disk = NoDisk
    /\ exited = NoExit
    /\ arg = ""
    /\ ret = NoRet
    /\ page = 0
    /\ agregation = NoAgregation

\* the locals of import_operations_from_csv when no import is running
ImportLocalsReset ==
    /\ file' = NoFile
    /\ field_map' = EmptyMap
    /\ pos' = 1
    /\ idx' = enumerate_index(EnumerateStart, 1)
    /\ operations' = <<>>
    /\ locals' = NoRawValues
    /\ result' = NoResult

\* what a handler other than the import leaves alone
SessionFrame ==
    UNCHANGED <<variant, aliasOrder, file, pass, field_map, pos, idx, operations,
                locals, error, result, first, ui, disk>>

\* choice 1 of the menu, "Ouvrir" in the window: the user picks an
\* existing file and import_operations_from_csv(path) is called
SessionStartImport ==
    /\ pc = "idle"
    /\ pass <= MaxImports
    /\ file' \in SessionFiles
    /\ pc' = "start"
    /\ field_map' = EmptyMap
    /\ pos' = 1
    /\ idx' = enumerate_index(EnumerateStart, 1)
    /\ operations' = <<>>
    /\ locals' = NoRawValues
    /\ error' = NoError
    /\ result' = NoResult
    /\ arg' = ""
    /\ ret' = Called(ImportHandler(ui))
    /\ page' = 0
    /\ UNCHANGED <<variant, aliasOrder, pass, first, outfile>>
    /\ UNCHANGED <<ui, memory, disk, exited, agregation>>

\* the user names a file that does not exist: the menu prints "introuvable"
\* and returns; the window's import raises FileNotFoundError, shown by
\* showerror
SessionMissingFile ==
    /\ pc = "idle"
    /\ pass <= MaxImports
    /\ error' = [kind |-> "FileNotFoundError", row |-> 0, preview |-> NoPreview]
    /\ memory' = Handler(ui, memory, Raised)
    /\ agregation' = AfterImport(ui, agregation, memory', Raised)
    /\ pass' = pass + 1
    /\ arg' = ""
    /\ ret' = Called(ImportHandler(ui))
    /\ page' = 0
    /\ UNCHANGED <<variant, aliasOrder, file, pc, field_map, pos, idx,
                   operations, locals, result, first, outfile>>
    /\ UNCHANGED <<ui, disk, exited>>

\* the user of a menu types, for the number of the file, a text for which
\* str.isdigit() is true and int() raises: idx = int(choix) - 1 is outside
\* the try, and the ValueError, which nothing catches, ends the process
SessionImportBadNumber ==
    /\ pc = "idle"
    /\ ui \in MenuUIs
    /\ arg' = "²"
    /\ IsDigitText(arg') /\ ~IsDigits(arg')
    /\ ret' = [Called(ImportHandler(ui)) EXCEPT !.raised = TRUE]
    /\ pc' = "exited"
    /\ exited' = [code |-> 1, printed |-> "traceback"]
    /\ page' = 0
    /\ UNCHANGED <<memory, agregation, outfile>>
    /\ SessionFrame

\* the import raised: the handler prints or shows the error and returns to
\* the loop
SessionImportFailed ==
    /\ pc = "failed"
    /\ ui \in SessionUIs
    /\ memory' = Handler(ui, memory, Raised)
    /\ agregation' = AfterImport(ui, agregation, memory', Raised)
    /\ pc' = "idle"
    /\ pass' = pass + 1
    /\ ImportLocalsReset
    /\ UNCHANGED <<variant, aliasOrder, error, first, outfile>>
    /\ UNCHANGED <<ui, disk, exited, arg, ret, page>>

\* the import returned its records: the menus extend self.operations; the
\* window assigns it and, in the same callback, refreshes the table of the
\* operations, the two aggregation tables and the totals
SessionImportDone ==
    /\ pc = "done"
    /\ ui \in SessionUIs
    /\ memory' = Handler(ui, memory, Returned(result.value))
    /\ agregation' = AfterImport(ui, agregation, memory', Returned(result.value))
    /\ pc' = "idle"
    /\ pass' = pass + 1
    /\ ImportLocalsReset
    /\ UNCHANGED <<variant, aliasOrder, error, first, outfile>>
    /\ UNCHANGED <<ui, disk, exited, arg, ret, page>>

\* choice 4 of the menu (exporter_operations) and "Exporter" in the window
\* (export_csv): nothing is written when the memory is empty or the
\* window's file dialog is cancelled; else export_operations_to_csv writes
\* the file, or open() raises and the handler prints or shows the error
SessionExport ==
    /\ pc = "idle"
    /\ \E outcome \in IF Len(memory) = 0 THEN {"empty"}
                      ELSE IF ui = "gui" THEN {"written", "refused", "cancelled"}
                      ELSE {"written", "refused"} :
           /\ outfile' = IF outcome = "written" THEN ExportedFile(memory) ELSE outfile
           /\ ret' = [Called(ExportHandler(ui)) EXCEPT !.text = outcome,
                                                       !.raised = (outcome = "refused")]
    /\ arg' = ""
    /\ page' = 0
    /\ UNCHANGED <<pc, memory, agregation, exited>>
    /\ SessionFrame

\* choice 5 of the menu: vider_operations, which asks for the confirmation
\* only when the memory is not empty
SessionVider ==
    /\ pc = "idle"
    /\ ui \in MenuUIs
    /\ \E confirmation \in IF Len(memory) = 0 THEN {""} ELSE ClearAnswers :
           /\ memory' = vider_operations(memory, confirmation)
           /\ arg' = confirmation
    /\ ret' = Called("vider_operations")
    /\ page' = 0
    /\ UNCHANGED <<pc, agregation, exited, outfile>>
    /\ SessionFrame

\* choice 6 of the menu of src/main04.py: menu_agregation prints a warning
\* on an empty memory and the table of afficher_agregations_completes
\* otherwise (the menu of src/main_fixed.py has no such choice)
SessionAgregation ==
    /\ pc = "idle"
    /\ ui = "menu_main04"
    /\ agregation' = IF Len(memory) = 0 THEN agregation
                     ELSE LET rows == afficher_agregations_completes(memory)
                          IN  [NoAgregation EXCEPT !.completes = rows,
                                                   !.totaux = total_general(rows)]
    /\ ret' = Called("menu_agregation")
    /\ arg' = ""
    /\ page' = 0
    /\ UNCHANGED <<pc, memory, exited, outfile>>
    /\ SessionFrame

\* choice 3 of the menu then display 3: page = 0, the first page is
\* printed, and the view ends at once when it is the only page
SessionDetail ==
    /\ pc = "idle"
    /\ ui \in MenuUIs
    /\ Len(memory) > 0
    /\ page' = 0
    /\ pc' = IF SinglePage(Len(memory), 0) THEN "idle" ELSE "detail"
    /\ ret' = Called("afficher_operations")
    /\ arg' = ""
    /\ UNCHANGED <<memory, agregation, exited, outfile>>
    /\ SessionFrame

\* the user answers the navigation prompt: the page moves, the view ends
\* (q), or int() raises and the ValueError, which nothing catches, ends
\* the process
SessionNavigate ==
    /\ pc = "detail"
    /\ \E nav \in NavAnswers :
           LET after == Navigate(Len(memory), page, nav)
           IN  /\ page' = after.page
               /\ arg' = nav
               /\ pc' = IF after.raised THEN "exited"
                        ELSE IF after.quit THEN "idle"
                        ELSE "detail"
               /\ exited' = IF after.raised THEN [code |-> 1, printed |-> "traceback"]
                            ELSE exited
               /\ ret' = [Called("afficher_operations") EXCEPT !.raised = after.raised]
    /\ UNCHANGED <<memory, agregation, outfile>>
    /\ SessionFrame

\* choice 0 of the menu (executer breaks its loop and main returns) and
\* the window closed (mainloop returns): the process ends with status 0
SessionQuit ==
    /\ pc = "idle"
    /\ pc' = "exited"
    /\ exited' = [code |-> 0, printed |-> IF ui = "gui" THEN "none" ELSE "au revoir"]
    /\ ret' = Called(IF ui = "gui" THEN "mainloop" ELSE "executer")
    /\ arg' = ""
    /\ page' = 0
    /\ UNCHANGED <<memory, agregation, outfile>>
    /\ SessionFrame

NextSession ==
    \/ SessionStartImport
    \/ SessionMissingFile
    \/ SessionImportBadNumber
    \/ OpenDialectError
    \/ OpenNoColumns
    \/ OpenOk
    \/ ReaderError
    \/ RowError
    \/ RowOk
    \/ Return
    \/ SessionImportFailed
    \/ SessionImportDone
    \/ SessionExport
    \/ SessionVider
    \/ SessionAgregation
    \/ SessionDetail
    \/ SessionNavigate
    \/ SessionQuit

SpecSession == InitSession /\ [][NextSession]_vars

(***************************************************************************)
(* The aggregations called alone, on every sequence of at most MaxGrouped  *)
(* operations: memory is the argument, agregation what the call returned   *)
(* (the dict of agreger_par_categorie in categories, the dict of           *)
(* agreger_par_sous_categorie in sous_categories, the table of             *)
(* afficher_agregations_completes in completes and its last line in        *)
(* totaux).                                                                *)
(***************************************************************************)
InitAggregations ==
    /\ ui = "gui"
    /\ variant = VariantOf(ui)
    /\ memory \in MenuMemories
    /\ pc = "call"
    /\ pass = 1
    /\ aliasOrder = DeclarationOrder
    /\ file = NoFile
    /\ field_map = EmptyMap
    /\ pos = 1
    /\ idx = enumerate_index(EnumerateStart, 1)
    /\ operations = <<>>
    /\ locals = NoRawValues
    /\ error = NoError
    /\ result = NoResult
    /\ first = <<>>
    /\ outfile = NoFile
    /\ disk = NoDisk
    /\ exited = NoExit
    /\ arg = ""
    /\ ret = NoRet
    /\ page = 0
    /\ agregation = NoAgregation

AggregationsFrame ==
    /\ pc = "call"
    /\ pc' = "returned"
    /\ UNCHANGED <<memory, arg, page, exited, outfile>>
    /\ SessionFrame

CallAgregerParCategorie ==
    /\ agregation' = [NoAgregation EXCEPT !.categories = agreger_par_categorie(memory)]
    /\ ret' = Called("agreger_par_categorie")
    /\ AggregationsFrame

CallAgregerParSousCategorie ==
    /\ agregation' = [NoAgregation EXCEPT
                         !.sous_categories = agreger_par_sous_categorie(memory)]
    /\ ret' = Called("agreger_par_sous_categorie")
    /\ AggregationsFrame

CallAfficherAgregationsCompletes ==
    /\ agregation' = LET rows == afficher_agregations_completes(memory)
                     IN  [NoAgregation EXCEPT !.completes = rows,
                                              !.totaux = total_general(rows)]
    /\ ret' = Called("afficher_agregations_completes")
    /\ AggregationsFrame

NextAggregations ==
    \/ CallAgregerParCategorie
    \/ CallAgregerParSousCategorie
    \/ CallAfficherAgregationsCompletes

SpecAggregations == InitAggregations /\ [][NextAggregations]_vars

(***************************************************************************)
(* Batch mode: main() of src/main04.py and src/main_fixed.py with --in and *)
(* --out.  disk says whether the input path exists and whether the output *)
(* path can be opened for writing; exited is the status passed to sys.exit *)
(* and what was printed before.                                            *)
(***************************************************************************)
BatchUIs == {"batch_main04", "batch_main_fixed"}

\* an entry point that reports the error and ends normally (not the code)
ExitStatusSwallowed(input_exists, raised) ==
    IF ~input_exists THEN 1 ELSE 0

\* sys.exit(1) when the input is missing, sys.exit(2) in the except branch,
\* sys.exit(0) after run_batch
ExitStatus(input_exists, raised) ==
    IF ~input_exists THEN 1
    ELSE IF raised THEN 2
    ELSE 0

\* run_batch: ops = import_operations_from_csv(input_path) comes before
\* export_operations_to_csv(ops, output_path); the export statement is
\* reached only when the import returned
run_batch_exports_always(p) == p \in {"done", "failed"}

run_batch_exports(p) == p = "done"

InitBatch ==
    /\ ui \in BatchUIs
    /\ variant = VariantOf(ui)
    /\ file \in SessionFiles
    /\ disk \in [input_exists : BOOLEAN, output_writable : BOOLEAN]
    /\ exited = NoExit
    /\ pc = "main"
    /\ pass = 1
    /\ aliasOrder \in IterationOrders(Range(NormHeaders(SessionHeader)))
    /\ field_map = EmptyMap
    /\ pos = 1
    /\ idx = enumerate_index(EnumerateStart, 1)
    /\ operations = <<>>
    /\ locals = NoRawValues
    /\ error = NoError
    /\ result = NoResult
    /\ first = <<>>
    /\ outfile = NoFile
    /\ memory = <<>>
    /\ arg = ""
    /\ ret = NoRet
    /\ page = 0
    /\ agregation = NoAgregation

BatchFrame ==
    UNCHANGED <<variant, aliasOrder, file, pass, field_map, pos, idx,
                operations, locals, result, ui, memory, disk, arg, ret,
                page, agregation>>

\* if not os.path.exists(args.input_path): print(...); sys.exit(1)
BatchMissingInput ==
    /\ pc = "main"
    /\ ~disk.input_exists
    /\ exited' = [code |-> ExitStatus(disk.input_exists, FALSE), printed |-> "missing"]
    /\ pc' = "exited"
    /\ UNCHANGED <<error, first, outfile>>
    /\ BatchFrame

\* run_batch calls import_operations_from_csv(input_path)
BatchStart ==
    /\ pc = "main"
    /\ disk.input_exists
    /\ pc' = "start"
    /\ UNCHANGED <<error, first, outfile, exited>>
    /\ BatchFrame

\* the import raised: except Exception -> print the error, sys.exit(2)
BatchImportRaises ==
    /\ pc = "failed"
    /\ ui \in BatchUIs
    /\ exited' = [code |-> ExitStatus(disk.input_exists, TRUE), printed |-> "error"]
    /\ pc' = "exited"
    /\ UNCHANGED <<error, first, outfile>>
    /\ BatchFrame

\* export_operations_to_csv(ops, output_path) writes the file; run_batch
\* prints its summary and main calls sys.exit(0)
BatchExport ==
    /\ run_batch_exports(pc)
    /\ ui \in BatchUIs
    /\ disk.output_writable
    /\ outfile' = ExportedFile(result.value)
    /\ first' = result.value
    /\ exited' = [code |-> ExitStatus(disk.input_exists, FALSE), printed |-> "summary"]
    /\ pc' = "exited"
    /\ UNCHANGED error
    /\ BatchFrame

\* open(path, "w") raises in the export: except Exception -> print the
\* error, sys.exit(2)
BatchExportRaises ==
    /\ run_batch_exports(pc)
    /\ ui \in BatchUIs
    /\ ~disk.output_writable
    /\ error' = [kind |-> "OSError", row |-> 0, preview |-> NoPreview]
    /\ exited' = [code |-> ExitStatus(disk.input_exists, TRUE), printed |-> "error"]
    /\ pc' = "exited"
    /\ UNCHANGED <<first, outfile>>
    /\ BatchFrame

NextBatch ==
    \/ BatchMissingInput
    \/ BatchStart
    \/ OpenDialectError
    \/ OpenNoColumns
    \/ OpenOk
    \/ ReaderError
    \/ RowError
    \/ RowOk
    \/ Return
    \/ BatchImportRaises
    \/ BatchExport
    \/ BatchExportRaises

SpecBatch == InitBatch /\ [][NextBatch]_vars


(***************************************************************************)
(* Properties of the record builder (checked under Spec).                  *)
(***************************************************************************)
\* the record built from the last row read, whose raw cells are in locals
LastRecord == operations[Len(operations)]

\* the last row is one the reconciliation rule applies to: its parsed debit
\* and credit are both absent, its amount cell is non-empty and parses
MergedAmountRow ==
    /\ Len(operations) > 0
    /\ IsNone(column_amount(variant, locals["debit"]))
    /\ IsNone(column_amount(variant, locals["credit"]))
    /\ locals["montant"] # ""
    /\ ~IsNone(parse_amount(locals["montant"]))

\* C1: for every data row whose parsed debit and credit are both absent and
\* whose amount cell is non-empty and parses to v, the record has
\* debit = |v| and no credit when v < 0, credit = v and no debit when
\* v > 0, and debit = credit = 0.0 when v = 0.
C1_Reconciliation ==
    MergedAmountRow =>
        LET v == parse_amount(locals["montant"])
        IN  /\ IsNeg(v) => /\ FloatEq(LastRecord.debit, Abs(v))
                           /\ ~LastRecord.debit.neg
                           /\ IsNone(LastRecord.credit)
            /\ IsPos(v) => /\ FloatEq(LastRecord.credit, v)
                           /\ IsNone(LastRecord.debit)
            /\ IsZero(v) => /\ LastRecord.debit = Zero
                            /\ LastRecord.credit = Zero

\* a row with a negative amount only has just been merged into debit
C1_Witness ==
    /\ MergedAmountRow
    /\ IsNeg(parse_amount(locals["montant"]))
    /\ IsPos(LastRecord.debit)
    /\ IsNone(LastRecord.credit)

\* C2: every record of every import has debit >= 0 when debit is present
\* and credit >= 0 when credit is present, also when the value comes from a
\* dedicated debit or credit column holding a negative or parenthesised
\* amount.
C2_NonNegative ==
    \A i \in 1..Len(operations) :
        /\ ~IsNeg(operations[i].debit)
        /\ ~IsNeg(operations[i].credit)

\* C3 as stated: when the import returns, every line after the header has
\* produced exactly one record, the number of records is the number of
\* lines, and the i-th record is built from the i-th line.
C3_EverySourceRow ==
    pc = "done" =>
        /\ Len(operations) = Len(file.lines)
        /\ \A i \in 1..Len(operations) :
              operations[i] = BuildRecord(variant, field_map, file.header,
                                          file.lines[i].cells)

\* C3 amended: when the import returns, every line after the header that is
\* not blank has produced exactly one record, the number of records is the
\* number of non-blank lines, and the i-th record is built from the i-th
\* non-blank line.
C3_EveryNonBlankRow ==
    pc = "done" =>
        LET rows == DataRows(file.lines)
        IN  /\ Len(operations) = Len(rows)
            /\ result.returned
            /\ result.value = operations
            /\ \A i \in 1..Len(rows) :
                  operations[i] = BuildRecord(variant, field_map, file.header,
                                              rows[i].cells)

\* an import has returned the record of a file that also holds a blank line
C3_Witness ==
    /\ pc = "done"
    /\ pass = 1
    /\ Len(operations) >= 1
    /\ \E i \in 1..Len(file.lines) : IsBlank(file.lines[i])

\* C4: if building the record of the k-th data row raises (the header is
\* row 1, so the k-th line after the header is row k + 1 of the file), the
\* import fails with a row error whose number is k + 1, carrying the
\* key -> raw value preview of that row; nothing is returned to the caller.
\* pos - 1 is the place, among the lines after the header, of the line
\* whose record raised.
C4_RowError ==
    (pc = "failed" /\ error.kind = "RuntimeError") =>
        LET k    == pos - 1
            line == file.lines[k]
        IN  /\ k >= 1
            /\ error.row = k + 1
            /\ Len(error.preview.named) = Len(file.header)
            /\ \A i \in 1..Len(file.header) :
                  error.preview.named[i] = <<file.header[i], line.cells[i]>>
            /\ error.preview.rest =
                  SubSeq(line.cells, Len(file.header) + 1, Len(line.cells))
            /\ ~result.returned
            /\ result.value = <<>>

\* C5: when the reader itself fails while producing a data row, the import
\* ends with a row error (RuntimeError) that names the 1-based number of
\* that row, not with the reader's own exception.
C5_ReaderFailureIsRowError ==
    (pc = "failed" /\ pos > 1 /\ file.lines[pos - 1].kind = "bad") =>
        /\ error.kind = "RuntimeError"
        /\ error.row = Len(DataRows(SubSeq(file.lines, 1, pos - 1))) + 1

\* C8: for every row and every internal field without a resolved header,
\* the raw value used for the field is the empty string, whatever the row
\* holds, also when a column's header normalises to the empty token.
C8_UnmappedIsEmpty ==
    \A f \in FieldSet : f \notin DOMAIN field_map => locals[f] = ""

\* C9 as stated: whenever debit/credit come from the single amount column
\* by the reconciliation rule, at most one of them is populated.
C9_AtMostOne ==
    MergedAmountRow => (IsNone(LastRecord.debit) \/ IsNone(LastRecord.credit))

\* C9 amended: whenever debit/credit come from the single amount column by
\* the reconciliation rule, at most one of them is populated, unless the
\* amount is exactly zero, in which case both are 0.0.
C9_AtMostOneUnlessZero ==
    MergedAmountRow =>
        IF IsZero(parse_amount(locals["montant"]))
        THEN LastRecord.debit = Zero /\ LastRecord.credit = Zero
        ELSE IsNone(LastRecord.debit) \/ IsNone(LastRecord.credit)

\* a positive amount has been merged into credit alone
C9_Witness ==
    /\ MergedAmountRow
    /\ IsPos(parse_amount(locals["montant"]))
    /\ IsNone(LastRecord.debit)
    /\ IsPos(LastRecord.credit)

\* C10: for every file that imports successfully, exporting the records and
\* importing the exported file gives as many records, with the same debit,
\* credit and date_comptabilisation position by position.
C10_RoundTrip ==
    (pass = 2 /\ pc = "done") =>
        /\ Len(operations) = Len(first)
        /\ \A i \in 1..Len(first) :
              /\ i <= Len(operations)
              /\ AmountEq(operations[i].debit, first[i].debit)
              /\ AmountEq(operations[i].credit, first[i].credit)
              /\ operations[i].date_comptabilisation = first[i].date_comptabilisation

(***************************************************************************)
(* Properties of the alias resolver (checked under SpecResolve).           *)
(***************************************************************************)
\* C6: when the headers hold several aliases of one internal field, the
\* field is mapped to the alias that comes first in the declaration of
\* HEADER_ALIASES, on every run.
C6_DeclarationPriority ==
    pc = "resolved" =>
        field_map = map_headers_to_fields(NormHeaders(file.header), DeclarationOrder)

\* C7: for every list of normalised headers, the mapping holds an internal
\* field iff one of its aliases is among the headers, the mapped value is
\* such an alias, and the mapping is the same for every permutation of the
\* list.
C7_ResolveSound ==
    pc = "resolved" =>
        LET hs      == file.header
            present == Range(hs)
        IN  /\ \A f \in FieldSet :
                  f \in DOMAIN field_map <=> Range(HEADER_ALIASES[f]) \cap present # {}
            /\ \A f \in DOMAIN field_map :
                  field_map[f] \in Range(HEADER_ALIASES[f]) \cap present
            /\ \A p \in Perms(1..Len(hs)) :
                  map_headers_to_fields([i \in 1..Len(hs) |-> hs[p[i]]], aliasOrder)
                      = field_map

\* a list with two aliases of the date field and no alias of debit resolved
C7_Witness ==
    /\ pc = "resolved"
    /\ {"date_valeur", "date"} \subseteq Range(file.header)
    /\ "date_comptabilisation" \in DOMAIN field_map
    /\ "debit" \notin DOMAIN field_map
    /\ Len(file.header) = 3


(***************************************************************************)
(* Claims about the parsers, checked on SpecParsers.                       *)
(***************************************************************************)
\* the shape YYYY-MM-DD
IsIsoDate(s) ==
    /\ Len(s) = 10
    /\ Char(s, 5) = "-" /\ Char(s, 8) = "-"
    /\ IsDigits(SubSeq(s, 1, 4)) /\ IsDigits(SubSeq(s, 6, 7))
    /\ IsDigits(SubSeq(s, 9, 10))

\* C14: parse_date never raises and returns the empty string, a YYYY-MM-DD
\* date, or the raw input character for character.
C14_RawOrIso ==
    ret.fn = "parse_date" =>
        /\ ~ret.raised
        /\ \/ ret.text = ""
           \/ IsIsoDate(ret.text)
           \/ ret.text = arg

\* the cleaned texts float() rejects that the claim lists
SeveralPeriods(text) == Count(text, ".") > 1
SeveralSigns(text) == Count(text, "+") + Count(text, "-") > 1
TrailingSign(text) == Len(text) > 0 /\ Char(text, Len(text)) \in {"+", "-"}

\* C15: parse_amount never raises, and returns None for None, for a blank
\* text, for a cleaned text that is empty or a bare sign, and for a cleaned
\* text with several periods, several signs or a trailing sign.
C15_NeverRaises ==
    ret.fn = "parse_amount" =>
        /\ ~ret.raised
        /\ LET cleaned == CleanedText(arg)
           IN  (\/ arg = NoneCell
                \/ Strip(arg) = ""
                \/ cleaned \in {"", "+", "-"}
                \/ SeveralPeriods(cleaned)
                \/ SeveralSigns(cleaned)
                \/ TrailingSign(cleaned)) => IsNone(ret.amount)

\* a call of parse_amount whose float() raised and was caught
C15_Witness ==
    /\ ret.fn = "parse_amount"
    /\ arg # NoneCell
    /\ SeveralPeriods(CleanedText(arg))
    /\ ~ret.raised
    /\ IsNone(ret.amount)

\* C16: a parsed amount that was wrapped in parentheses is -|n| whatever
\* sign is written inside; any other parsed amount has the sign written in
\* the cleaned text.
C16_Sign ==
    ret.fn = "parse_amount" /\ ~IsNone(ret.amount) =>
        LET cleaned == CleanedText(arg)
            n       == PyFloat(cleaned)
        IN  /\ ret.amount.inf = n.inf
            /\ ret.amount.mag = n.mag
            /\ ret.amount.e = n.e
            /\ IF IsWrapped(Strip(arg))
               THEN ret.amount.neg
               ELSE ret.amount.neg = (Char(cleaned, 1) = "-")

\* a parenthesised amount with a minus sign inside, returned negative
C16_Witness ==
    /\ ret.fn = "parse_amount"
    /\ arg # NoneCell
    /\ IsWrapped(Strip(arg))
    /\ Char(CleanedText(arg), 1) = "-"
    /\ IsNeg(ret.amount)

\* C17: one comma and no period: the comma is the decimal point; a comma
\* and a period with the last comma after the last period: periods are
\* removed and the comma is the decimal point; otherwise commas are
\* discarded and periods kept.
C17_Separators ==
    ret.fn = "parse_amount" /\ arg # NoneCell =>
        LET text    == RemoveChars(Unwrapped(Strip(arg)), AmountSpaces)
            commas  == Count(text, ",")
            periods == Count(text, ".")
            read    == IF commas = 1 /\ periods = 0
                       THEN Replace(text, ",", ".")
                       ELSE IF commas > 0 /\ periods > 0
                               /\ RFind(text, ",") > RFind(text, ".")
                       THEN Replace(RemoveChars(text, {"."}), ",", ".")
                       ELSE RemoveChars(text, {","})
            n       == PyFloat(CleanAmount(read))
        IN  IF IsNone(n) THEN IsNone(ret.amount)
            ELSE /\ ~IsNone(ret.amount)
                 /\ ret.amount.inf = n.inf
                 /\ ret.amount.mag = n.mag
                 /\ ret.amount.e = n.e

\* an amount with a period before its last comma that parsed
C17_Witness ==
    /\ ret.fn = "parse_amount"
    /\ arg # NoneCell
    /\ LastCommaRule(RemoveChars(Unwrapped(Strip(arg)), AmountSpaces))
    /\ ~IsNone(ret.amount)

\* C18: normalize_header is idempotent, and its result has no leading,
\* trailing or consecutive underscores.
C18_Idempotent ==
    ret.fn = "normalize_header" =>
        /\ normalize_header(ret.text) = ret.text
        /\ \/ ret.text = ""
           \/ Char(ret.text, 1) # "_" /\ Char(ret.text, Len(ret.text)) # "_"
        /\ \A i \in 1..(Len(ret.text) - 1) :
               ~(Char(ret.text, i) = "_" /\ Char(ret.text, i + 1) = "_")

\* a header that starts with an underscore and holds a hyphen, normalised
\* to something not empty
C18_Witness ==
    /\ ret.fn = "normalize_header"
    /\ arg # NoneCell
    /\ Len(arg) > 0
    /\ Char(arg, 1) = "_"
    /\ Contains(arg, "-")
    /\ ret.text # ""


(***************************************************************************)
(* Claims about the opening of the file, checked on Spec.                  *)
(***************************************************************************)
\* C12: dialect detection never raises: when the sniffer finds no dialect
\* the fallback is returned and the import goes on, so no import ends, before
\* its first row is read, with the csv.Error of the detection.
C12_DetectNeverRaises ==
    ~file.sniffed /\ pc = "failed" /\ pos = 1 => error.kind # "csv.Error"

\* C13: a file without a header row ends the import with the ValueError
\* "no column detected" before any row is read, and no record is returned.
C13_NoColumnsIsFormatError ==
    Len(file.header) = 0 /\ pc # "start" =>
        /\ pc = "failed"
        /\ error.kind = "ValueError"
        /\ error.row = 0
        /\ operations = <<>>
        /\ ~result.returned


(***************************************************************************)
(* Claim about the exporter, checked on Spec.                              *)
(***************************************************************************)
\* an optional minus sign, digits, a period and exactly two digits
TwoDecimals(s) ==
    /\ Len(s) >= 4
    /\ Char(s, Len(s) - 2) = "."
    /\ IsDigits(SubSeq(s, Len(s) - 1, Len(s)))
    /\ LET whole  == SubSeq(s, 1, Len(s) - 3)
           digits == IF Char(whole, 1) = "-" THEN Tail(whole) ELSE whole
       IN  Len(digits) > 0 /\ IsDigits(digits)

\* the cell of an amount: empty when absent, two decimals when present
AmountCellOk(cell, amount) ==
    IF IsNone(amount) THEN cell = "" ELSE TwoDecimals(cell)

\* C19: the exported file has the ten fixed column names and one row per
\* record, in the order of the records; the text cells are the record's
\* fields, and debit and credit are empty when absent and written with
\* two decimals when present.
C19_Export ==
    pc = "exported" =>
        /\ outfile.header =
             <<"date_comptabilisation", "libelle_simplifie", "libelle_operation",
               "reference", "informations_complementaires", "type_operation",
               "categorie", "sous_categorie", "debit", "credit">>
        /\ Len(outfile.lines) = Len(first)
        /\ \A i \in 1..Len(first) :
             LET line == outfile.lines[i]
             IN  /\ line.kind = "row"
                 /\ Len(line.cells) = 10
                 /\ \A j \in 1..8 : line.cells[j] = first[i][outfile.header[j]]
                 /\ AmountCellOk(line.cells[9], first[i].debit)
                 /\ AmountCellOk(line.cells[10], first[i].credit)


(***************************************************************************)
(* Claims about the callers, checked on SpecSession and SpecBatch.         *)
(***************************************************************************)
\* C11: in the menus and in the window, from the start of an import until
\* its failure is handled self.operations does not change, a file that is
\* missing changes nothing either, and after the failure the session is
\* back in its loop.
C11_FailedImportKeepsMemory ==
    [][/\ pc \in {"start", "rows"} => memory' = memory
       /\ pc = "failed" => memory' = memory /\ pc' = "idle" /\ exited' = NoExit
       /\ pc = "idle" /\ pass' # pass => memory' = memory /\ pc' = "idle"]_vars

\* a session back in its loop after a row error, with the records of an
\* earlier import still in memory
C11_Witness ==
    /\ ui \in SessionUIs
    /\ pc = "idle"
    /\ error.kind = "RuntimeError"
    /\ memory # <<>>
    /\ pass = 3

\* C20: a batch run exits with 0 exactly when the import returned and the
\* export was written, with 1 when the input path does not exist, and with
\* 2, after printing the error, when the import or the export raised.
C20_ExitStatus ==
    pc = "exited" =>
        /\ exited.code \in {0, 1, 2}
        /\ exited.code = 0 <=>
               (result.returned /\ outfile = ExportedFile(result.value))
        /\ ~disk.input_exists => exited.code = 1 /\ exited.printed = "missing"
        /\ disk.input_exists /\ error.kind # "none" =>
               exited.code = 2 /\ exited.printed = "error"
        /\ exited.code = 2 => error.kind # "none"
        /\ exited.code = 1 => ~disk.input_exists

\* a batch run whose import returned and whose export raised
C20_Witness ==
    /\ pc = "exited"
    /\ exited.code = 2
    /\ result.returned
    /\ Len(result.value) > 0
    /\ error.kind = "OSError"


(***************************************************************************)
(* Claim about the single amount column, checked on Spec.                 *)
(***************************************************************************)
\* the parsed dedicated cells of the last row built
ParsedDebit == column_amount(variant, locals["debit"])
ParsedCredit == column_amount(variant, locals["credit"])

\* C22: the amount column is consulted exactly when the parsed debit and
\* the parsed credit are both absent: if either is present the record keeps
\* both as parsed, and if both are absent (also when a dedicated cell holds
\* text that does not parse) a non-empty amount that parses is merged.
C22_AmountOnlyWhenBothAbsent ==
    Len(operations) > 0 =>
        /\ (~IsNone(ParsedDebit) \/ ~IsNone(ParsedCredit)) =>
               /\ LastRecord.debit = ParsedDebit
               /\ LastRecord.credit = ParsedCredit
        /\ (IsNone(ParsedDebit) /\ IsNone(ParsedCredit)
            /\ ~IsNone(parse_amount(locals["montant"]))) =>
               ~(IsNone(LastRecord.debit) /\ IsNone(LastRecord.credit))
        /\ (IsNone(ParsedDebit) /\ IsNone(ParsedCredit)
            /\ IsNone(parse_amount(locals["montant"]))) =>
               (IsNone(LastRecord.debit) /\ IsNone(LastRecord.credit))

\* a row whose debit cell holds text that does not parse, whose credit cell
\* is empty, and whose amount was merged
C22_Witness ==
    /\ Len(operations) > 0
    /\ locals["debit"] # ""
    /\ IsNone(ParsedDebit)
    /\ IsNone(ParsedCredit)
    /\ locals["montant"] # ""
    /\ IsPos(LastRecord.debit)


(***************************************************************************)
(* Claim about the two separator rules, checked on SpecParsers.            *)
(***************************************************************************)
\* the text the two rules of a call are applied to
RuleText == RemoveChars(Unwrapped(Strip(arg)), AmountSpaces)

\* C23: the two rewriting rules of parse_amount exclude each other: no call
\* applies both, and no text satisfies both conditions.
C23_RulesExclusive ==
    ret.fn = "parse_amount" /\ arg # NoneCell =>
        /\ ret.text # "12"
        /\ ~(SingleCommaRule(RuleText) /\ LastCommaRule(RuleText))

\* a text with one comma and a period before it: only the second rule
\* rewrote it
C23_Witness ==
    /\ ret.fn = "parse_amount"
    /\ arg # NoneCell
    /\ Count(RuleText, ",") = 1
    /\ Contains(RuleText, ".")
    /\ ret.text = "2"


(***************************************************************************)
(* Claim about the row errors, checked on Spec.                            *)
(***************************************************************************)
\* the line the row loop handled last
HandledLine == file.lines[pos - 1]

\* C25: a row error is raised exactly for a row with more cells than the
\* header has columns: every row error is on such a row, no such row is
\* passed, a shorter row gives a record whose missing cells are read as
\* empty strings, and no cell text raises.
C25_RowErrorIffLongRow ==
    /\ pc = "failed" /\ error.kind = "RuntimeError" =>
           /\ pos > 1
           /\ HandledLine.kind = "row"
           /\ Len(HandledLine.cells) > Len(file.header)
    /\ pc \in {"rows", "done", "exported"} =>
           /\ \A i \in 1..(pos - 1) :
                  /\ file.lines[i].kind = "row"
                  /\ Len(file.lines[i].cells) <= Len(file.header)
           /\ Len(operations) = Len(DataRows(SubSeq(file.lines, 1, pos - 1)))
    /\ pc = "rows" /\ pos > 1 /\ Len(HandledLine.cells) > 0 =>
           \A f \in DOMAIN field_map :
               (\A j \in 1..Len(file.header) :
                    normalize_header(file.header[j]) = field_map[f]
                        => j > Len(HandledLine.cells))
               => locals[f] = ""

\* a row shorter than the header has just given a record
C25_Witness ==
    /\ pc = "rows"
    /\ pos > 1
    /\ Len(HandledLine.cells) > 0
    /\ Len(HandledLine.cells) < Len(file.header)
    /\ Len(operations) > 0
    /\ LastRecord.date_comptabilisation # ""


(***************************************************************************)
(* Claim about the three importers, checked on Spec.                       *)
(***************************************************************************)
\* the import by importer v fails before the first row
OpenFails(v) == detect_dialect(v, file.sniffed) = "raise" \/ Len(file.header) = 0

\* C26: the three importers are equivalent: on every file they fail
\* together when the file is opened, and every record built by one is the
\* record the two others build from the same row.
C26_VariantsEquivalent ==
    /\ pc = "failed" /\ pos = 1 => \A v \in Variants : OpenFails(v)
    /\ pc = "rows" /\ pos > 1 =>
           \A v \in Variants :
               BuildRecord(v, field_map, file.header, HandledLine.cells) = LastRecord


(***************************************************************************)
(* Claims about the callers, continued.                                    *)
(***************************************************************************)
\* C24: in the menus and in the window, when an import returns, the
\* in-memory sequence becomes exactly the records of that import, in row
\* order; nothing of an earlier import stays.
C24_ImportReplacesMemory ==
    [][pc = "done" /\ pc' = "idle" => memory' = result.value]_vars


\* C27: in batch mode the export is attempted only after the import has
\* returned: whenever the output file has been written, or opening it has
\* failed, the input existed and the import returned its records; after a
\* missing input or a failed import the output file is untouched.
C27_ExportOnlyAfterImport ==
    /\ outfile # NoFile =>
           disk.input_exists /\ result.returned /\ outfile = ExportedFile(result.value)
    /\ error.kind = "OSError" => disk.input_exists /\ result.returned
    /\ pc = "exited" /\ (~disk.input_exists \/ ~result.returned) => outfile = NoFile

C27_Witness ==
    /\ pc = "exited"
    /\ outfile # NoFile
    /\ result.returned
    /\ Len(result.value) > 0
    /\ exited.code = 0


(***************************************************************************)
(* Claims about the resolution of the columns, continued.                  *)
(***************************************************************************)
\* C28: no alias belongs to two logical fields, and so the resolved mapping
\* never gives the same source column to two different logical fields: the
\* amount column is never also the debit or the credit column.
C28_MappingInjective ==
    /\ \A f, g \in FieldSet :
           f # g => Range(HEADER_ALIASES[f]) \cap Range(HEADER_ALIASES[g]) = {}
    /\ \A f, g \in DOMAIN field_map : f # g => field_map[f] # field_map[g]
    /\ "montant" \in DOMAIN field_map =>
           \A f \in DOMAIN field_map \cap {"debit", "credit"} :
               field_map[f] # field_map["montant"]

C28_Witness ==
    /\ pc = "resolved"
    /\ {"date_comptabilisation", "montant"} \subseteq DOMAIN field_map
    /\ field_map["montant"] = "amount"


(***************************************************************************)
(* Claims about the menu, checked on SpecSession, and about the            *)
(* aggregations, checked on SpecAggregations.                              *)
(***************************************************************************)
Confirmed(answer) == Lower(Strip(answer)) \in {"oui", "o", "yes", "y"}

\* C29: 'clear operations' of the menu empties the memory only when the
\* answer typed, trimmed and lower-cased, is oui, o, yes or y; after any
\* other answer, and when the memory is already empty, the memory is what
\* it was.
C29_ClearOnlyWhenConfirmed ==
    [][ret'.fn = "vider_operations" =>
           /\ memory' # memory => memory' = <<>> /\ Confirmed(arg')
           /\ ~Confirmed(arg') \/ memory = <<>> => memory' = memory]_vars

\* imported operations cleared by an answer that is trimmed and lower-cased
C29_Witness ==
    /\ ret.fn = "vider_operations"
    /\ arg = " OUI "
    /\ memory = <<>>
    /\ pass > 1

\* C30: in the paginated view of n >= 1 operations the page index is
\* always within 0 .. (n - 1) div 8 whatever was typed, so the rows shown,
\* start + 1 .. end, are never none and never beyond n; and with n <= 8 the
\* view never waits for a navigation input.
C30_PageInRange ==
    ret.fn = "afficher_operations" =>
        LET n == Len(memory)
            start == page * 8
            end == IF start + 8 < n THEN start + 8 ELSE n
        IN  /\ n >= 1
            /\ 0 <= page /\ page <= (n - 1) \div 8
            /\ start < end /\ end <= n
            /\ n <= 8 => pc = "idle" /\ arg = ""

\* 's' typed on the last of three or more pages
C30_Witness ==
    /\ pc = "detail"
    /\ Len(memory) > 2 * per_page
    /\ page = (Len(memory) - 1) \div per_page
    /\ arg = "s"

AggregatedField ==
    IF ret.fn = "agreger_par_categorie" THEN "categorie" ELSE "sous_categorie"

DefaultLabel ==
    IF ret.fn = "agreger_par_categorie" THEN "Non catégorisé" ELSE "Non spécifié"

\* the dict the aggregation returned
Aggregated ==
    IF ret.fn = "agreger_par_categorie" THEN agregation.categories
    ELSE agregation.sous_categories

GroupKeyOf(op) ==
    IF op[AggregatedField] = "" THEN DefaultLabel ELSE op[AggregatedField]

GroupOf(key) == SelectSeq(memory, LAMBDA op : GroupKeyOf(op) = key)

\* the float sum of the amounts of a sequence that are not None, added to
\* 0.0 one after the other in the order of the sequence
RECURSIVE SumPresent(_)
SumPresent(amounts) ==
    IF Len(amounts) = 0 THEN DoubleZero
    ELSE LET before == SumPresent(SubSeq(amounts, 1, Len(amounts) - 1))
             last   == amounts[Len(amounts)]
         IN  IF last.some THEN FloatAdd(before, ToDouble(last)) ELSE before

RECURSIVE TotalCount(_)
TotalCount(d) == IF Len(d) = 0 THEN 0 ELSE d[1][2].nombre + TotalCount(Tail(d))

\* C21: an aggregation by category or by sub-category has one entry for
\* each distinct key of the records, the empty key being the default label;
\* the entry's count is the number of records of the group, its totals are
\* the sums of the debits and of the credits the group's records have, and
\* the counts add up to the number of records.
C21_Aggregation ==
    ret.fn \in {"agreger_par_categorie", "agreger_par_sous_categorie"} =>
        LET keys == {GroupKeyOf(memory[i]) : i \in 1..Len(memory)}
        IN  /\ {Aggregated[j][1] : j \in 1..Len(Aggregated)} = keys
            /\ Len(Aggregated) = Cardinality(keys)
            /\ "" \notin keys
            /\ \A j \in 1..Len(Aggregated) :
                   LET group == GroupOf(Aggregated[j][1])
                       entry == Aggregated[j][2]
                   IN  /\ entry.nombre = Len(group)
                       /\ DoubleEq(entry.total_debit,
                                  SumPresent([i \in 1..Len(group) |-> group[i].debit]))
                       /\ DoubleEq(entry.total_credit,
                                  SumPresent([i \in 1..Len(group) |-> group[i].credit]))
            /\ TotalCount(Aggregated) = Len(memory)

\* three records in two groups: an empty category and the category "Non
\* catégorisé" make one group of two, whose debits 0.2 and 0.1 add up to
\* the double above 0.3
C21_Witness ==
    /\ ret.fn = "agreger_par_categorie"
    /\ Len(memory) = 3
    /\ Len(agregation.categories) = 2
    /\ \E i \in 1..3 : memory[i].categorie = ""
    /\ \E j \in 1..2 :
           /\ agregation.categories[j][1] = "Non catégorisé"
           /\ agregation.categories[j][2].nombre = 2
           /\ FloatLess(ToDouble(Float(FALSE, 3, 1)),
                        agregation.categories[j][2].total_debit)

=============================================================================
